---- MODULE Spec2Model ----
(***************************************************************************)
(* Model of the SEO audit backend (src/server.js and the later variant of  *)
(* its scrape step, src/unnamed/part_000).                                 *)
(*                                                                         *)
(* JavaScript strings are modelled as sequences of one-character strings,  *)
(* so that startsWith, substring, trim, toLowerCase and length are         *)
(* computed as the code computes them.                                     *)
(***************************************************************************)
EXTENDS Integers, Sequences, FiniteSets, TLC

(***************************************************************************)
(* Bounds of the model.                                                    *)
(***************************************************************************)
\* longest rule list handed to checkPathRobots
MaxRules == 2
\* most raw lines in a robots.txt body
MaxLines == 3
\* most JSON-LD script elements on a page
MaxBlocks == 2
\* most <loc> entries in a sitemap document
MaxLocs == 2
\* most <url> entries in a long sitemap document
MaxEntries == 52
\* most meta elements on a page
MaxTags == 3
\* most words in a page text
MaxWords == 2
\* most link elements of one kind on a page
MaxLinks == 2

(***************************************************************************)
(* String primitives, as String.prototype defines them.                    *)
(***************************************************************************)
UpperChars == <<"A","B","C","D","E","F","G","H","I","J","K","L","M",
                "N","O","P","Q","R","S","T","U","V","W","X","Y","Z">>
LowerChars == <<"a","b","c","d","e","f","g","h","i","j","k","l","m",
                "n","o","p","q","r","s","t","u","v","w","x","y","z">>

LowerChar(c) ==
  IF \E i \in 1..26 : UpperChars[i] = c
    THEN LowerChars[CHOOSE i \in 1..26 : UpperChars[i] = c]
    ELSE c

\* s.toLowerCase()
toLowerCase(s) == [i \in 1..Len(s) |-> LowerChar(s[i])]

\* s.startsWith(p)
startsWith(s, p) ==
  /\ Len(p) <= Len(s)
  /\ \A i \in 1..Len(p) : s[i] = p[i]

\* s.substring(n): the characters from 0-based index n to the end
substring(s, n) ==
  IF n >= Len(s) THEN << >> ELSE [i \in 1..(Len(s) - n) |-> s[i + n]]

\* s.includes(sub)
includes(s, sub) ==
  \E k \in 0..Len(s) : startsWith(substring(s, k), sub)

IsSpace(c) == c \in {" ", "\t", "\r"}

\* s.trim()
trim(s) ==
  IF \A i \in 1..Len(s) : IsSpace(s[i])
    THEN << >>
    ELSE LET first == CHOOSE i \in 1..Len(s) :
                        /\ ~IsSpace(s[i])
                        /\ \A j \in 1..(i - 1) : IsSpace(s[j])
             last  == CHOOSE i \in 1..Len(s) :
                        /\ ~IsSpace(s[i])
                        /\ \A j \in (i + 1)..Len(s) : IsSpace(s[j])
         IN  [i \in 1..(last - first + 1) |-> s[i + first - 1]]

\* s.split(sep) for a one-character separator
RECURSIVE split(_, _)
split(s, sep) ==
  IF \E i \in 1..Len(s) : s[i] = sep
    THEN LET k == CHOOSE i \in 1..Len(s) :
                    s[i] = sep /\ \A j \in 1..(i - 1) : s[j] # sep
         IN  <<SubSeq(s, 1, k - 1)>> \o split(substring(s, k), sep)
    ELSE <<s>>

\* the text whose lines are ls, separated by sep
RECURSIVE join(_, _)
join(ls, sep) ==
  IF ls = << >> THEN << >>
  ELSE IF Len(ls) = 1 THEN ls[1]
  ELSE ls[1] \o <<sep>> \o join(Tail(ls), sep)

\* all sequences over S of length at most n
SeqUpTo(S, n) == UNION {[1..k -> S] : k \in 0..n}

(***************************************************************************)
(* Path strings used as inputs.                                            *)
(***************************************************************************)
P_admin        == <<"/","a","d","m","i","n">>
P_adminSlash   == <<"/","a","d","m","i","n","/">>
P_adminX       == <<"/","a","d","m","i","n","/","x">>
P_adminPublic  == <<"/","a","d","m","i","n","/","p","u","b","l","i","c">>
P_a            == <<"/","a">>
P_blog         == <<"/","b","l","o","g">>
P_root         == <<"/">>

\* paths whose policy is asked
PathInputs == {P_adminX, P_adminPublic, P_blog}
\* prefix rules a robots.txt may carry
RuleInputs == {P_admin, P_adminSlash, P_adminX, P_adminPublic, P_a, P_blog}

VARIABLES
  call,              \* the pure function under evaluation and its arguments
  ret,               \* its return value, once it has returned
  rpc,               \* analyzeRobotsTxt: position ("start", "loop", "done", "idle")
  url,               \* analyzeRobotsTxt: the audited URL
  response,          \* outcome of fetchContent(robotsUrl)
  robotsContent,     \* body of the robots.txt response
  lines,             \* trimmed, non-empty, non-comment lines
  idx,               \* number of lines already parsed
  currentUserAgent,  \* agent cursor: << >> is null, <<v>> is the value v
  blocksAll,
  allowsAll,
  sitemaps,
  disallowRules,
  allowRules,
  subpageRules,
  robotsTxt,         \* the record analyzeRobotsTxt returns
  spc,               \* structured data: position ("collect", "done", "raised", "idle")
  scripts,           \* bodies of the page's JSON-LD script elements
  si,                \* number of script elements already visited
  structuredData,    \* structure.structuredData
  schemaAnalysis,    \* the record analyzeStructuredData returns
  smpc,              \* analyzeSitemapContent: position ("fetch", "body", "done", "idle")
  currentUrl,        \* analyzeSitemapContent: the audited URL
  sitemapResponse,   \* outcome of fetch(sitemapUrl) and of response.text()
  sitemapData,       \* the record analyzeSitemapContent returns
  dpc,               \* analyzeDomain: position ("start", "json", "done", "idle")
  targetUrl,         \* analyzeDomain: the audited URL
  archiveResponse,   \* outcome of fetch(archiveUrl) and of response.json()
  domainInfo,        \* the record analyzeDomain returns
  variant,           \* the audit: which scrapeSite runs ("server.js", "part_000")
  apc,               \* the audit: position of the request
  reqUrl,            \* req.body.url, then the normalized url
  browser,           \* "none" (null), "connected", "disconnected", "closed"
  chromeTemp,        \* LOCAL_CHROME_PATH exists
  metrics,
  lhError,           \* the error caught by the Lighthouse step, if any
  html,
  pupError,          \* the error caught by the rendering step, if any
  structure,
  res,               \* the HTTP response sent
  cpc,               \* checkSitemap: position ("start", "head", "get", "common", "done", "idle")
  siteUrl,           \* checkSitemap: the audited URL
  robotsTxtSitemaps, \* checkSitemap: the Sitemap values of robots.txt
  sitemapLinks,      \* href of each link[rel="sitemap"] element of the page
  ci,                \* number of robotsTxtSitemaps already visited
  pathIdx,           \* number of commonSitemapPaths already probed
  probe,             \* outcome of the last HEAD or GET probe
  foundSitemaps,
  discovery,         \* the record checkSitemap returns
  netOp,             \* a network operation: which function issued the fetch
  netPc,             \* its position ("fetch", "body", "done", "idle")
  timer,             \* its abort timer ("armed", "cleared", "fired", "none")
  chunks,            \* number of body chunks received
  netOutcome,        \* how the operation ended
  serverBuild,       \* concurrent audits: the file the server runs
  chromePath,        \* concurrent audits: LOCAL_CHROME_PATH exists
  audits,            \* concurrent audits: the state of each request in flight
  subpagePc,         \* checkSubpagePaths: position ("wait", "done", "idle")
  served,            \* the sitemaps of the audited site and what became of each
  sitemapArg,        \* the record of checkSitemap handed to checkSubpagePaths
  subpageResult      \* the record checkSubpagePaths returns

callVars == <<call, ret>>
parseVars == <<currentUserAgent, blocksAll, allowsAll, sitemaps,
               disallowRules, allowRules, subpageRules>>
robotsVars == <<rpc, url, response, robotsContent, lines, idx, parseVars, robotsTxt>>
schemaVars == <<spc, scripts, si, structuredData, schemaAnalysis>>
sitemapVars == <<smpc, currentUrl, sitemapResponse, sitemapData>>
domainVars == <<dpc, targetUrl, archiveResponse, domainInfo>>
auditVars == <<variant, apc, reqUrl, browser, chromeTemp, metrics, lhError, html,
               pupError, structure, res>>
discoveryVars == <<cpc, siteUrl, robotsTxtSitemaps, sitemapLinks, ci, pathIdx, probe,
                   foundSitemaps, discovery>>
networkVars == <<netOp, netPc, timer, chunks, netOutcome>>
concurrentVars == <<serverBuild, chromePath, audits>>
subpageVars == <<subpagePc, served, sitemapArg, subpageResult>>
vars == <<callVars, robotsVars, schemaVars, sitemapVars, domainVars, auditVars,
          discoveryVars, networkVars, concurrentVars, subpageVars>>

\* the variables a pure-function call leaves alone
notCallVars == <<robotsVars, schemaVars, sitemapVars, domainVars, auditVars,
  discoveryVars,
  networkVars,
  concurrentVars,
  subpageVars>>
\* the variables analyzeRobotsTxt leaves alone
notRobotsVars == <<callVars, schemaVars, sitemapVars, domainVars, auditVars,
  discoveryVars,
  networkVars,
  concurrentVars,
  subpageVars>>
\* the variables the structured-data analysis leaves alone
notSchemaVars == <<callVars, robotsVars, sitemapVars, domainVars, auditVars,
  discoveryVars,
  networkVars,
  concurrentVars,
  subpageVars>>
\* the variables analyzeSitemapContent leaves alone
notSitemapVars == <<callVars, robotsVars, schemaVars, domainVars, auditVars,
  discoveryVars,
  networkVars,
  concurrentVars,
  subpageVars>>
\* the variables an audit request leaves alone
notAuditVars == <<callVars, robotsVars, schemaVars, sitemapVars, domainVars,
  discoveryVars,
  networkVars,
  concurrentVars,
  subpageVars>>
\* the variables checkSitemap leaves alone
notDiscoveryVars == <<callVars, robotsVars, schemaVars, sitemapVars, domainVars, auditVars,
  networkVars,
  concurrentVars,
  subpageVars>>
\* the variables a network operation leaves alone
notNetworkVars == <<callVars, robotsVars, schemaVars, sitemapVars, domainVars, auditVars,
  discoveryVars,
  concurrentVars,
  subpageVars>>
\* the variables concurrent audits leave alone
notConcurrentVars == <<callVars, robotsVars, schemaVars, sitemapVars, domainVars, auditVars,
  discoveryVars, networkVars,
  subpageVars>>
\* the variables checkSubpagePaths leaves alone
notSubpageVars == <<callVars, robotsVars, schemaVars, sitemapVars, domainVars, auditVars,
  discoveryVars, networkVars, concurrentVars>>
\* the variables analyzeDomain leaves alone
notDomainVars == <<callVars, robotsVars, schemaVars, sitemapVars, auditVars,
  discoveryVars,
  networkVars,
  concurrentVars,
  subpageVars>>

NoRet == [done |-> FALSE]
Returned(v) == [done |-> TRUE, value |-> v]

\* no pure function is being evaluated
IdleCall == call = [fn |-> "none"] /\ ret = NoRet

(***************************************************************************)
(* checkPathRobots(path, disallowRules, allowRules)                        *)
(***************************************************************************)
\* the inner loop: is there an allow rule that is a prefix of the path and
\* strictly longer than the disallow rule that matched
AllowOverrides_NoLength(path, rule, aRules) ==
  \E j \in 1..Len(aRules) : startsWith(path, aRules[j])

AllowOverrides(path, rule, aRules) ==
  \E j \in 1..Len(aRules) :
     /\ startsWith(path, aRules[j])
     /\ Len(aRules[j]) > Len(rule)

\* the value of `allowed` after the first i disallow rules were visited
RECURSIVE AllowedAfter(_, _, _, _)
AllowedAfter(path, dRules, aRules, i) ==
  IF i = 0 THEN TRUE
  ELSE LET before == AllowedAfter(path, dRules, aRules, i - 1)
           rule   == dRules[i]
       IN  IF startsWith(path, rule)
             THEN AllowOverrides(path, rule, aRules)
             ELSE before

checkPathRobots(path, dRules, aRules) ==
  AllowedAfter(path, dRules, aRules, Len(dRules))

PathCalls ==
  /\ call \in [fn : {"checkPathRobots"},
               path : PathInputs,
               disallowRules : SeqUpTo(RuleInputs, MaxRules),
               allowRules : SeqUpTo(RuleInputs, MaxRules)]
  /\ ret = NoRet

CallCheckPathRobots ==
  /\ call.fn = "checkPathRobots"
  /\ ~ret.done
  /\ ret' = Returned(checkPathRobots(call.path, call.disallowRules, call.allowRules))
  /\ UNCHANGED <<call, notCallVars>>

(***************************************************************************)
(* analyzeRobotsTxt(url)                                                   *)
(***************************************************************************)
KW_userAgent == <<"u","s","e","r","-","a","g","e","n","t",":">>
KW_disallow  == <<"d","i","s","a","l","l","o","w",":">>
KW_allow     == <<"a","l","l","o","w",":">>
KW_sitemap   == <<"s","i","t","e","m","a","p",":">>
Star         == <<"*">>
Hash         == <<"#">>

\* raw lines a robots.txt body is made of
L_uaStar      == <<"U","s","e","r","-","a","g","e","n","t",":"," ","*">>
L_uaBot       == <<"U","s","e","r","-","a","g","e","n","t",":"," ","b","o","t">>
L_disAdmin    == <<"D","i","s","a","l","l","o","w",":"," ","/","a","d","m","i","n">>
L_disRoot     == <<"D","i","s","a","l","l","o","w",":"," ","/">>
L_disEmpty    == <<"D","i","s","a","l","l","o","w",":">>
L_disUpperA   == <<" ","D","I","S","A","L","L","O","W",":"," ","/","a"," ">>
L_allowPublic == <<"A","l","l","o","w",":"," ","/","a","d","m","i","n","/","p","u","b","l","i","c">>
L_allowRoot   == <<"A","l","l","o","w",":"," ","/">>
L_sitemap     == <<"S","i","t","e","m","a","p",":"," ","h","t","t","p","s",":","/","/",
                   "x",".","t","e","s","t","/","s","i","t","e","m","a","p",".","x","m","l">>
L_comment     == <<"#"," ","c">>
U_sitemap     == <<"h","t","t","p","s",":","/","/","x",".","t","e","s","t","/",
                   "s","i","t","e","m","a","p",".","x","m","l">>

RawLines == {L_uaStar, L_uaBot, L_disAdmin, L_disRoot, L_disEmpty, L_disUpperA,
             L_allowPublic, L_allowRoot, L_sitemap, L_comment}

\* audited URLs: new URL(url) throws on an invalid one
UrlInputs == [valid : {TRUE}, pathname : PathInputs]
               \cup {[valid |-> FALSE, pathname |-> << >>]}

Null == << >>
Some(v) == <<v>>

\* raw.map(l => l.trim()).filter(l => l && !l.startsWith('#'))
RECURSIVE TrimAndFilter(_)
TrimAndFilter(raw) ==
  IF raw = << >> THEN << >>
  ELSE LET l == trim(Head(raw))
       IN  IF l # << >> /\ ~startsWith(l, Hash)
             THEN <<l>> \o TrimAndFilter(Tail(raw))
             ELSE TrimAndFilter(Tail(raw))

\* robotsContent.split('\n').map(...).filter(...)
SplitLines(content) == TrimAndFilter(split(content, "\n"))

\* bodies a robots.txt response may carry
BodyInputs == {join(ls, "\n") : ls \in SeqUpTo(RawLines, MaxLines)}

\* status codes of a response; response.ok is status in 200..299
OkStatuses == {200}
NotOkStatuses == {404, 503}
Threw == [threw |-> TRUE]
Response(status) == [threw |-> FALSE, status |-> status, ok |-> status \in 200..299]

IsUserAgentLine(line) == startsWith(toLowerCase(line), KW_userAgent)
UserAgentValue(line)  == trim(substring(line, 11))

\* the scope test of the Disallow and Allow branches
InWildcardScope_Always(cua) == TRUE

InWildcardScope(cua) == cua = Some(Star)

IsDisallowLine(cua, line) ==
  /\ ~IsUserAgentLine(line)
  /\ InWildcardScope(cua)
  /\ startsWith(toLowerCase(line), KW_disallow)
DisallowValue(line) == trim(substring(line, 9))

IsAllowLine(cua, line) ==
  /\ ~IsUserAgentLine(line)
  /\ InWildcardScope(cua)
  /\ startsWith(toLowerCase(line), KW_allow)
AllowValue(line) == trim(substring(line, 6))

IsSitemapLine(line) ==
  /\ ~IsUserAgentLine(line)
  /\ startsWith(toLowerCase(line), KW_sitemap)
SitemapValue(line) == trim(substring(line, 8))

\* a value that sets blocksAll / allowsAll instead of adding a rule
IsAllValue(path) == path = P_root \/ path = << >>

W_admin    == <<"/","a","d","m","i","n">>
W_private  == <<"/","p","r","i","v","a","t","e">>
W_wpAdmin  == <<"/","w","p","-","a","d","m","i","n">>
W_api      == <<"/","a","p","i">>
W_cgiBin   == <<"/","c","g","i","-","b","i","n">>
W_category == <<"/","c","a","t","e","g","o","r","y">>
W_tag      == <<"/","t","a","g">>
W_author   == <<"/","a","u","t","h","o","r">>
W_search   == <<"/","s","e","a","r","c","h">>
W_filter   == <<"/","f","i","l","t","e","r">>

IncludesAny(path, words) == \E w \in words : includes(path, w)

\* the category of subpageRules a Disallow value is filed under ("" for none)
DisallowCategory(path) ==
  IF IncludesAny(path, {W_admin, W_private, W_wpAdmin}) THEN "admin"
  ELSE IF IncludesAny(path, {W_api, W_cgiBin}) THEN "api"
  ELSE IF IncludesAny(path, {W_category, W_tag, W_author}) THEN "content"
  ELSE IF IncludesAny(path, {W_search, W_filter}) THEN "search"
  ELSE ""

\* the category of subpageRules an Allow value is filed under ("" for none)
AllowCategory(path) ==
  IF IncludesAny(path, {W_category, W_tag, W_author}) THEN "content"
  ELSE IF IncludesAny(path, {W_search, W_filter}) THEN "search"
  ELSE ""

FileRule(rules, cat, type, path) ==
  IF cat = "" THEN rules
  ELSE [rules EXCEPT ![cat] = Append(@, [type |-> type, path |-> path])]

\* blocksAll after a line was read
BlocksAllAfter(cua, line, b) ==
  IF IsDisallowLine(cua, line) /\ IsAllValue(DisallowValue(line)) THEN TRUE ELSE b

\* disallowRules after a line was read
DisallowRulesAfter_Prepend(cua, line, rules) ==
  IF IsDisallowLine(cua, line) /\ ~IsAllValue(DisallowValue(line))
    THEN <<DisallowValue(line)>> \o rules
    ELSE rules

DisallowRulesAfter(cua, line, rules) ==
  IF IsDisallowLine(cua, line) /\ ~IsAllValue(DisallowValue(line))
    THEN Append(rules, DisallowValue(line))
    ELSE rules

\* allowsAll after a line was read
AllowsAllAfter(cua, line, a) ==
  IF IsAllowLine(cua, line) /\ IsAllValue(AllowValue(line)) THEN TRUE ELSE a

\* allowRules after a line was read
AllowRulesAfter(cua, line, rules) ==
  IF IsAllowLine(cua, line) /\ ~IsAllValue(AllowValue(line))
    THEN Append(rules, AllowValue(line))
    ELSE rules

\* sitemaps after a line was read
SitemapsAfter(line, sm) ==
  IF IsSitemapLine(line) /\ SitemapValue(line) # << >>
    THEN Append(sm, SitemapValue(line))
    ELSE sm

\* subpageRules after a line was read
SubpageRulesAfter(cua, line, rules) ==
  IF IsDisallowLine(cua, line) /\ ~IsAllValue(DisallowValue(line))
    THEN FileRule(rules, DisallowCategory(DisallowValue(line)), "Disallow", DisallowValue(line))
  ELSE IF IsAllowLine(cua, line) /\ ~IsAllValue(AllowValue(line))
    THEN FileRule(rules, AllowCategory(AllowValue(line)), "Allow", AllowValue(line))
  ELSE rules

NoSubpageRules == [admin |-> << >>, api |-> << >>, content |-> << >>, search |-> << >>]

\* the record returned when robots.txt is absent (response not ok)
RobotsAbsent_Blocked ==
  [exists |-> FALSE, allowsIndexing |-> FALSE, currentPathAllowed |-> FALSE,
   hasSitemap |-> FALSE, sitemaps |-> << >>, disallowRules |-> << >>,
   allowRules |-> << >>, subpageAnalysis |-> [rules |-> NoSubpageRules]]

RobotsAbsent ==
  [exists |-> FALSE, allowsIndexing |-> TRUE, currentPathAllowed |-> TRUE,
   hasSitemap |-> FALSE, sitemaps |-> << >>, disallowRules |-> << >>,
   allowRules |-> << >>, subpageAnalysis |-> [rules |-> NoSubpageRules]]

\* the record returned from the catch block
RobotsError ==
  [exists |-> FALSE, allowsIndexing |-> TRUE, currentPathAllowed |-> TRUE,
   hasSitemap |-> FALSE, sitemaps |-> << >>, disallowRules |-> << >>,
   allowRules |-> << >>, subpageAnalysis |-> [rules |-> NoSubpageRules],
   error |-> "error.message"]

\* allowsIndexing = !blocksAll || allowsAll
AllowsIndexing(b, a) == ~b \/ a

\* the record returned after a successful parse
RobotsFound ==
  [exists |-> TRUE,
   allowsIndexing |-> AllowsIndexing(blocksAll, allowsAll),
   currentPathAllowed |-> checkPathRobots(url.pathname, disallowRules, allowRules),
   blocksAll |-> blocksAll,
   hasSitemap |-> Len(sitemaps) > 0,
   sitemaps |-> sitemaps,
   disallowRules |-> disallowRules,
   allowRules |-> allowRules,
   subpageAnalysis |->
     [hasAdminRules |-> Len(subpageRules.admin) > 0,
      hasApiRules |-> Len(subpageRules.api) > 0,
      hasContentRules |-> Len(subpageRules.content) > 0,
      hasSearchRules |-> Len(subpageRules.search) > 0,
      rules |-> subpageRules],
   content |-> SubSeq(robotsContent, 1, IF Len(robotsContent) < 2000
                                            THEN Len(robotsContent) ELSE 2000),
   currentPath |-> url.pathname]

NoResult == [pending |-> TRUE]

ParseLocalsInit ==
  /\ currentUserAgent = Null
  /\ blocksAll = FALSE
  /\ allowsAll = FALSE
  /\ sitemaps = << >>
  /\ disallowRules = << >>
  /\ allowRules = << >>
  /\ subpageRules = NoSubpageRules

RobotsStart ==
  /\ rpc = "start"
  /\ url \in UrlInputs
  /\ response = [pending |-> TRUE]
  /\ robotsContent = << >>
  /\ lines = << >>
  /\ idx = 0
  /\ ParseLocalsInit
  /\ robotsTxt = NoResult

IdleRobots ==
  /\ rpc = "idle"
  /\ url = [valid |-> FALSE, pathname |-> << >>]
  /\ response = [pending |-> TRUE]
  /\ robotsContent = << >>
  /\ lines = << >>
  /\ idx = 0
  /\ ParseLocalsInit
  /\ robotsTxt = NoResult

\* new URL(url) or fetchContent throws (network error, timeout): the catch
\* block answers
RobotsFetchThrows ==
  /\ rpc = "start"
  /\ response' = Threw
  /\ rpc' = "done"
  /\ robotsTxt' = RobotsError
  /\ UNCHANGED <<url, robotsContent, lines, idx, parseVars, notRobotsVars>>

\* the response is not ok (non-2xx)
RobotsFetchNotOk ==
  /\ rpc = "start"
  /\ url.valid
  /\ \E status \in NotOkStatuses : response' = Response(status)
  /\ rpc' = "done"
  /\ robotsTxt' = RobotsAbsent
  /\ UNCHANGED <<url, robotsContent, lines, idx, parseVars, notRobotsVars>>

\* the response is ok: its body is split into lines
RobotsFetchOk ==
  /\ rpc = "start"
  /\ url.valid
  /\ \E status \in OkStatuses : response' = Response(status)
  /\ \E body \in BodyInputs :
        /\ robotsContent' = body
        /\ lines' = SplitLines(body)
  /\ rpc' = "loop"
  /\ UNCHANGED <<url, idx, parseVars, robotsTxt, notRobotsVars>>

\* one iteration of the loop over lines
ParseLine ==
  /\ rpc = "loop"
  /\ idx < Len(lines)
  /\ LET line == lines[idx + 1]
         cua  == currentUserAgent
     IN  /\ currentUserAgent' =
               IF IsUserAgentLine(line) THEN Some(UserAgentValue(line)) ELSE cua
         /\ blocksAll' = BlocksAllAfter(cua, line, blocksAll)
         /\ disallowRules' = DisallowRulesAfter(cua, line, disallowRules)
         /\ allowsAll' = AllowsAllAfter(cua, line, allowsAll)
         /\ allowRules' = AllowRulesAfter(cua, line, allowRules)
         /\ sitemaps' = IF IsUserAgentLine(line) THEN sitemaps
                                                ELSE SitemapsAfter(line, sitemaps)
         /\ subpageRules' = SubpageRulesAfter(cua, line, subpageRules)
  /\ idx' = idx + 1
  /\ UNCHANGED <<rpc, url, response, robotsContent, lines, robotsTxt, notRobotsVars>>

\* the loop is over: the result record is built and returned
RobotsReturn ==
  /\ rpc = "loop"
  /\ idx = Len(lines)
  /\ rpc' = "done"
  /\ robotsTxt' = RobotsFound
  /\ UNCHANGED <<url, response, robotsContent, lines, idx, parseVars, notRobotsVars>>

NextRobots ==
  \/ RobotsFetchThrows
  \/ RobotsFetchNotOk
  \/ RobotsFetchOk
  \/ ParseLine
  \/ RobotsReturn

(***************************************************************************)
(* performCompetitiveAnalysis(metrics, structure)                          *)
(***************************************************************************)
\* metrics.performance and metrics.seo are percentages
MaxScore == 100

overallGrade_EitherForB(performance, seo) ==
  IF performance >= 80 /\ seo >= 80 THEN "A"
  ELSE IF performance >= 70 \/ seo >= 70 THEN "B"
  ELSE IF performance >= 60 \/ seo >= 60 THEN "C"
  ELSE "D"

overallGrade(performance, seo) ==
  IF performance >= 80 /\ seo >= 80 THEN "A"
  ELSE IF performance >= 70 /\ seo >= 70 THEN "B"
  ELSE IF performance >= 60 \/ seo >= 60 THEN "C"
  ELSE "D"

\* <<x>> when the test holds, << >> otherwise: one conditional push
PushIf(test, x) == IF test THEN <<x>> ELSE << >>

performCompetitiveAnalysis(m, st) ==
  [overallGrade |-> overallGrade(m.performance, m.seo),
   strengths |->
        PushIf(m.performance >= 70, "Strong performance metrics")
     \o PushIf(m.seo >= 80, "Excellent SEO score")
     \o PushIf(st.h1Count = 1, "Proper H1 structure")
     \o PushIf(st.readabilityScore >= 70, "Good content readability"),
   weaknesses |->
        PushIf(~(m.performance >= 70), "Performance needs improvement")
     \o PushIf(~(m.seo >= 80) /\ m.seo < 60, "SEO score below average")
     \o PushIf(st.h1Count # 1, "H1 tag issues")
     \o PushIf(~(st.readabilityScore >= 70), "Readability could be improved")]

GradeCalls ==
  /\ call \in [fn : {"performCompetitiveAnalysis"},
               metrics : [performance : 0..MaxScore, seo : 0..MaxScore],
               structure : [h1Count : {0, 1}, readabilityScore : {69, 70}]]
  /\ ret = NoRet

CallPerformCompetitiveAnalysis ==
  /\ call.fn = "performCompetitiveAnalysis"
  /\ ~ret.done
  /\ ret' = Returned(performCompetitiveAnalysis(call.metrics, call.structure))
  /\ UNCHANGED <<call, notCallVars>>

(***************************************************************************)
(* getSubpageRecommendation(path, robotsAllowed, inSitemap)                *)
(***************************************************************************)
C_admin     == <<"/","a","d","m","i","n">>
C_wpAdmin   == <<"/","w","p","-","a","d","m","i","n">>
C_login     == <<"/","l","o","g","i","n">>
C_dashboard == <<"/","d","a","s","h","b","o","a","r","d">>
C_categoryExample ==
  <<"/","c","a","t","e","g","o","r","y","/","e","x","a","m","p","l","e">>
C_blog      == <<"/","b","l","o","g">>
C_products  == <<"/","p","r","o","d","u","c","t","s">>
C_services  == <<"/","s","e","r","v","i","c","e","s">>
C_contact   == <<"/","c","o","n","t","a","c","t">>
C_about     == <<"/","a","b","o","u","t">>
C_search    == <<"/","s","e","a","r","c","h">>
C_api       == <<"/","a","p","i">>
C_userProfile == <<"/","u","s","e","r","/","p","r","o","f","i","l","e">>
C_cart      == <<"/","c","a","r","t">>
C_checkout  == <<"/","c","h","e","c","k","o","u","t">>

\* the catalogue of conventional paths checkSubpagePaths probes
commonPaths ==
  <<C_admin, C_wpAdmin, C_login, C_dashboard, C_categoryExample, C_blog,
    C_products, C_services, C_contact, C_about, C_search, C_api,
    C_userProfile, C_cart, C_checkout>>

isAdminPath(path) == IncludesAny(path, {C_admin, C_wpAdmin, C_dashboard, C_api})
isContentPath(path) == IncludesAny(path, {W_category, C_blog, C_products, C_services})
isImportantPath(path) == IncludesAny(path, {C_contact, C_about, C_login})

getSubpageRecommendation_NoSitemapCheck(path, robotsAllowed, inSitemap) ==
  IF isAdminPath(path) THEN
    IF robotsAllowed THEN "Should be blocked in robots.txt"
    ELSE "Properly configured"
  ELSE IF isContentPath(path) THEN
    IF ~robotsAllowed THEN "Should be allowed in robots.txt"
    ELSE IF ~inSitemap THEN "Should be included in sitemap"
    ELSE "Properly configured"
  ELSE IF isImportantPath(path) THEN
    IF ~robotsAllowed THEN "Should be allowed in robots.txt"
    ELSE IF inSitemap THEN "Properly configured" ELSE "Consider adding to sitemap"
  ELSE IF robotsAllowed THEN "Properly configured" ELSE "Review blocking rules"

getSubpageRecommendation(path, robotsAllowed, inSitemap) ==
  IF isAdminPath(path) THEN
    IF robotsAllowed THEN "Should be blocked in robots.txt"
    ELSE IF inSitemap THEN "Should not be in sitemap"
    ELSE "Properly configured"
  ELSE IF isContentPath(path) THEN
    IF ~robotsAllowed THEN "Should be allowed in robots.txt"
    ELSE IF ~inSitemap THEN "Should be included in sitemap"
    ELSE "Properly configured"
  ELSE IF isImportantPath(path) THEN
    IF ~robotsAllowed THEN "Should be allowed in robots.txt"
    ELSE IF inSitemap THEN "Properly configured" ELSE "Consider adding to sitemap"
  ELSE IF robotsAllowed THEN "Properly configured" ELSE "Review blocking rules"

RecommendationCalls ==
  /\ call \in [fn : {"getSubpageRecommendation"},
               path : {commonPaths[i] : i \in 1..Len(commonPaths)},
               robotsAllowed : BOOLEAN,
               inSitemap : BOOLEAN]
  /\ ret = NoRet

CallGetSubpageRecommendation ==
  /\ call.fn = "getSubpageRecommendation"
  /\ ~ret.done
  /\ ret' = Returned(getSubpageRecommendation(call.path, call.robotsAllowed,
                                              call.inSitemap))
  /\ UNCHANGED <<call, notCallVars>>

(***************************************************************************)
(* Structured data: the JSON-LD loop of scrapeSite and                     *)
(* analyzeStructuredData(structuredData, $)                                *)
(***************************************************************************)
\* values JSON.parse returns
JNull   == [kind |-> "null"]
JNumber == [kind |-> "number"]
JArray  == [kind |-> "array"]
JObject(atType, aggregateRating) ==
  [kind |-> "object", atType |-> atType, aggregateRating |-> aggregateRating]
SyntaxError == [kind |-> "SyntaxError"]

\* values of the "@type" member
NoType == [kind |-> "absent"]
TypeString(t) == [kind |-> "string", v |-> t]
TypeArray(ts) == [kind |-> "array", v |-> ts]

\* bodies of script elements
B_organization == "{\"@type\":\"Organization\"}"
B_malformed    == "{\"@type\":\"Organization\""
B_null         == "null"
B_number       == "42"
B_array        == "[{\"@type\":\"Product\"}]"
B_noType       == "{\"name\":\"x\"}"
B_articleArray == "{\"@type\":[\"NewsArticle\",\"Thing\"]}"
B_productRated == "{\"@type\":\"Product\",\"aggregateRating\":{\"ratingValue\":4}}"
B_localBusiness == "{\"@type\":\"LocalBusiness\"}"

ScriptBodies == {B_organization, B_malformed, B_null, B_number, B_array,
                 B_noType, B_articleArray, B_productRated, B_localBusiness}

\* JSON.parse(text): the value, or SyntaxError when it throws
JSONparse(text) ==
  CASE text = B_organization  -> JObject(TypeString("Organization"), FALSE)
    [] text = B_null          -> JNull
    [] text = B_number        -> JNumber
    [] text = B_array         -> JArray
    [] text = B_noType        -> JObject(NoType, FALSE)
    [] text = B_articleArray  -> JObject(TypeArray(<<"NewsArticle", "Thing">>), FALSE)
    [] text = B_productRated  -> JObject(TypeString("Product"), TRUE)
    [] text = B_localBusiness -> JObject(TypeString("LocalBusiness"), FALSE)
    [] OTHER                  -> SyntaxError

\* the try/catch around JSON.parse: a block that throws is not pushed
PushParsed(data, text) ==
  IF JSONparse(text) = SyntaxError THEN data ELSE Append(data, JSONparse(text))

\* schema['@type'] raises a TypeError on null
ReadTypeRaises(schema) == schema.kind = "null"

\* schema['@type'] is truthy
HasType(schema) == schema.kind = "object" /\ schema.atType.kind # "absent"

\* Array.isArray(schema['@type']) ? schema['@type'][0] : schema['@type']
TypeOf(schema) ==
  IF schema.atType.kind = "array" THEN schema.atType.v[1] ELSE schema.atType.v

\* the typed schemas among the first n entries
TypedUpTo(data, n) == {i \in 1..n : HasType(data[i])}

\* types, in order of first occurrence
RECURSIVE TypesOf(_, _)
TypesOf(data, n) ==
  IF n = 0 THEN << >>
  ELSE LET before == TypesOf(data, n - 1)
       IN  IF HasType(data[n]) /\ \A k \in 1..Len(before) : before[k] # TypeOf(data[n])
             THEN Append(before, TypeOf(data[n]))
             ELSE before

SomeTyped(data, names) ==
  \E i \in TypedUpTo(data, Len(data)) : TypeOf(data[i]) \in names

analyzeStructuredData(data) ==
  [schemasFound  |-> Len(data),
   types         |-> TypesOf(data, Len(data)),
   organization  |-> SomeTyped(data, {"Organization", "LocalBusiness"}),
   article       |-> SomeTyped(data, {"Article", "NewsArticle"}),
   product       |-> SomeTyped(data, {"Product", "Service"}),
   breadcrumb    |-> SomeTyped(data, {"BreadcrumbList"}),
   localBusiness |-> SomeTyped(data, {"LocalBusiness"}),
   rating        |-> \E i \in TypedUpTo(data, Len(data)) : data[i].aggregateRating]

SchemaStart ==
  /\ spc = "collect"
  /\ scripts \in SeqUpTo(ScriptBodies, MaxBlocks)
  /\ si = 0
  /\ structuredData = << >>
  /\ schemaAnalysis = NoResult

IdleSchema ==
  /\ spc = "idle"
  /\ scripts = << >>
  /\ si = 0
  /\ structuredData = << >>
  /\ schemaAnalysis = NoResult

\* one iteration of $('script[type="application/ld+json"]').each
CollectBlock ==
  /\ spc = "collect"
  /\ si < Len(scripts)
  /\ structuredData' = PushParsed(structuredData, scripts[si + 1])
  /\ si' = si + 1
  /\ UNCHANGED <<spc, scripts, schemaAnalysis, notSchemaVars>>

\* analyzeStructuredData returns its record
AnalyzeStructuredDataReturns ==
  /\ spc = "collect"
  /\ si = Len(scripts)
  /\ \A i \in 1..Len(structuredData) : ~ReadTypeRaises(structuredData[i])
  /\ schemaAnalysis' = analyzeStructuredData(structuredData)
  /\ spc' = "done"
  /\ UNCHANGED <<scripts, si, structuredData, notSchemaVars>>

\* analyzeStructuredData raises: forEach reaches an entry whose "@type"
\* cannot be read, and nothing catches the TypeError
AnalyzeStructuredDataRaises ==
  /\ spc = "collect"
  /\ si = Len(scripts)
  /\ \E i \in 1..Len(structuredData) : ReadTypeRaises(structuredData[i])
  /\ spc' = "raised"
  /\ UNCHANGED <<scripts, si, structuredData, schemaAnalysis, notSchemaVars>>

NextSchema ==
  \/ CollectBlock
  \/ AnalyzeStructuredDataReturns
  \/ AnalyzeStructuredDataRaises

(***************************************************************************)
(* analyzeSitemapContent(sitemapUrl, currentUrl)                           *)
(***************************************************************************)
\* "https://x.test"
S_home      == <<"h","t","t","p","s",":","/","/","x",".","t","e","s","t">>
\* "https://x.test/"
S_homeSlash == <<"h","t","t","p","s",":","/","/","x",".","t","e","s","t","/">>
\* "https://x.test/blog/a"
S_blog      == <<"h","t","t","p","s",":","/","/","x",".","t","e","s","t","/","b","l","o","g","/","a">>
\* "https://x.test/category/c"
S_category  == <<"h","t","t","p","s",":","/","/","x",".","t","e","s","t","/","c","a","t","e","g","o","r","y","/","c">>
\* "https://x.test/product/p"
S_product   == <<"h","t","t","p","s",":","/","/","x",".","t","e","s","t","/","p","r","o","d","u","c","t","/","p">>
\* "https://x.test/about"
S_about     == <<"h","t","t","p","s",":","/","/","x",".","t","e","s","t","/","a","b","o","u","t">>
\* "https://x.test/a/b/c"
S_deep      == <<"h","t","t","p","s",":","/","/","x",".","t","e","s","t","/","a","/","b","/","c">>

T_category == <<"/","c","a","t","e","g","o","r","y","/">>
T_tag      == <<"/","t","a","g","/">>
T_product  == <<"/","p","r","o","d","u","c","t","/">>
T_item     == <<"/","i","t","e","m","/">>
T_blog     == <<"/","b","l","o","g","/">>
T_post     == <<"/","p","o","s","t","/">>
T_article  == <<"/","a","r","t","i","c","l","e","/">>

LocInputs == {S_home, S_homeSlash, S_blog, S_category, S_product, S_about, S_deep}
CurrentUrlInputs == {S_home, S_about, S_blog}

\* What cheerio.load(content, { xmlMode: true }) exposes of a response body.
\* The parser is lenient: it never throws, and an element counts whether or
\* not the document is well-formed XML.
\*   wellFormed    the body is well-formed XML
\*   urlset        $('urlset').length > 0
\*   sitemapindex  $('sitemapindex').length > 0
\*   url           the <loc> text of each <url> element, in document order
\*   sitemap       the <loc> text of each <sitemap> element, in document order
UrlsetDocument(locs, wellFormed) ==
  [wellFormed |-> wellFormed, urlset |-> TRUE, sitemapindex |-> FALSE,
   url |-> locs, sitemap |-> << >>]
IndexDocument(locs, wellFormed) ==
  [wellFormed |-> wellFormed, urlset |-> FALSE, sitemapindex |-> TRUE,
   url |-> << >>, sitemap |-> locs]
\* a body without any sitemap element, such as an HTML error page
NotXmlDocument ==
  [wellFormed |-> FALSE, urlset |-> FALSE, sitemapindex |-> FALSE,
   url |-> << >>, sitemap |-> << >>]

\* n entries: /about and /blog/a in turn, and the given loc at the end
Filled(n, last) ==
  [i \in 1..n |-> IF i = n THEN last ELSE IF i % 2 = 1 THEN S_about ELSE S_blog]

\* urlsets around the limit of urls.slice(0, 50)
LongUrlsets ==
  {UrlsetDocument(Filled(n, last), TRUE) :
     n \in 49..MaxEntries, last \in {S_home, S_category, S_deep}}

SitemapBodies ==
  {UrlsetDocument(locs, w) : locs \in SeqUpTo(LocInputs, MaxLocs), w \in BOOLEAN}
    \cup LongUrlsets
    \cup {IndexDocument(locs, w) : locs \in SeqUpTo({U_sitemap}, 1), w \in BOOLEAN}
    \cup {NotXmlDocument}

\* the if/else chain that categorizes one <url>
UrlType(loc, current) ==
  IF includes(loc, T_category) \/ includes(loc, T_tag) THEN "category"
  ELSE IF includes(loc, T_product) \/ includes(loc, T_item) THEN "product"
  ELSE IF includes(loc, T_blog) \/ includes(loc, T_post) \/ includes(loc, T_article)
    THEN "blog"
  ELSE IF loc = current \/ loc = current \o <<"/">> THEN "current"
  ELSE IF /\ ~IncludesAny(loc, {T_category, T_tag, T_product, T_item,
                                T_blog, T_post, T_article})
          /\ Len(split(loc, "/")) <= 4
    THEN "static"
  ELSE "other"

CountType(urls, type) == Cardinality({i \in 1..Len(urls) : urls[i].type = type})

\* urls.slice(0, 50)
SliceLimit == 50
slice(urls) == SubSeq(urls, 1, IF Len(urls) < SliceLimit THEN Len(urls) ELSE SliceLimit)

UrlsetEntries(doc, current) ==
  [i \in 1..Len(doc.url) |-> [loc |-> doc.url[i], type |-> UrlType(doc.url[i], current)]]

IndexEntries(doc) ==
  [i \in 1..Len(doc.sitemap) |-> [loc |-> doc.sitemap[i], type |-> "sitemap-index"]]

\* a variant that also counts the audited page among the static pages
UrlsetCoverage_CurrentIsStatic(urls) ==
  [totalPages    |-> Len(urls),
   categoryPages |-> CountType(urls, "category"),
   productPages  |-> CountType(urls, "product"),
   blogPages     |-> CountType(urls, "blog"),
   staticPages   |-> CountType(urls, "static") + CountType(urls, "current"),
   hasCurrentPage       |-> CountType(urls, "current") > 0,
   currentPageInSitemap |-> CountType(urls, "current") > 0]

UrlsetCoverage(urls) ==
  [totalPages    |-> Len(urls),
   categoryPages |-> CountType(urls, "category"),
   productPages  |-> CountType(urls, "product"),
   blogPages     |-> CountType(urls, "blog"),
   staticPages   |-> CountType(urls, "static"),
   hasCurrentPage       |-> CountType(urls, "current") > 0,
   currentPageInSitemap |-> CountType(urls, "current") > 0]

EmptyCoverage ==
  [totalPages |-> 0, categoryPages |-> 0, productPages |-> 0, blogPages |-> 0,
   staticPages |-> 0, hasCurrentPage |-> FALSE, currentPageInSitemap |-> FALSE]

IndexCoverage(urls) ==
  [totalPages |-> 0, categoryPages |-> 0, productPages |-> 0, blogPages |-> 0,
   staticPages |-> 0, hasCurrentPage |-> FALSE, currentPageInSitemap |-> FALSE,
   sitemapCount |-> Len(urls)]

SitemapAnalyzed(doc, urls, coverage) ==
  [analyzed        |-> TRUE,
   type            |-> IF doc.sitemapindex THEN "sitemap-index" ELSE "urlset",
   urls            |-> slice(urls),
   totalUrls       |-> Len(urls),
   subpageCoverage |-> coverage,
   hasValidXml     |-> TRUE]

\* a variant whose counters see the returned entries only
SitemapParsed_CountsReturned(doc, current) ==
  IF doc.urlset
    THEN SitemapAnalyzed(doc, UrlsetEntries(doc, current),
                         UrlsetCoverage(slice(UrlsetEntries(doc, current))))
  ELSE IF doc.sitemapindex
    THEN SitemapAnalyzed(doc, IndexEntries(doc), IndexCoverage(IndexEntries(doc)))
  ELSE SitemapAnalyzed(doc, << >>, EmptyCoverage)

\* the body of the try block once the content has been read
SitemapParsed(doc, current) ==
  IF doc.urlset
    THEN SitemapAnalyzed(doc, UrlsetEntries(doc, current),
                         UrlsetCoverage(UrlsetEntries(doc, current)))
  ELSE IF doc.sitemapindex
    THEN SitemapAnalyzed(doc, IndexEntries(doc), IndexCoverage(IndexEntries(doc)))
  ELSE SitemapAnalyzed(doc, << >>, EmptyCoverage)

\* the early return on !response.ok and the catch block
SitemapNotAnalyzed(reason) == [analyzed |-> FALSE, error |-> reason]

SitemapStart ==
  /\ smpc = "fetch"
  /\ currentUrl \in CurrentUrlInputs
  /\ sitemapResponse = [pending |-> TRUE]
  /\ sitemapData = NoResult

IdleSitemap ==
  /\ smpc = "idle"
  /\ currentUrl = << >>
  /\ sitemapResponse = [pending |-> TRUE]
  /\ sitemapData = NoResult

\* fetch rejects: network error, or the 5000 ms abort
SitemapFetchThrows ==
  /\ smpc = "fetch"
  /\ sitemapResponse' = Threw
  /\ sitemapData' = SitemapNotAnalyzed("fetch")
  /\ smpc' = "done"
  /\ UNCHANGED <<currentUrl, notSitemapVars>>

SitemapFetchNotOk ==
  /\ smpc = "fetch"
  /\ \E status \in NotOkStatuses :
       /\ sitemapResponse' = Response(status)
       /\ sitemapData' = SitemapNotAnalyzed("HTTP")
  /\ smpc' = "done"
  /\ UNCHANGED <<currentUrl, notSitemapVars>>

SitemapFetchOk ==
  /\ smpc = "fetch"
  /\ \E status \in OkStatuses : sitemapResponse' = Response(status)
  /\ smpc' = "body"
  /\ UNCHANGED <<currentUrl, sitemapData, notSitemapVars>>

\* response.text() rejects
SitemapBodyThrows ==
  /\ smpc = "body"
  /\ sitemapResponse' = [sitemapResponse EXCEPT !.threw = TRUE]
  /\ sitemapData' = SitemapNotAnalyzed("body")
  /\ smpc' = "done"
  /\ UNCHANGED <<currentUrl, notSitemapVars>>

\* response.text() resolves; the content is parsed and analyzed
SitemapBodyRead ==
  /\ smpc = "body"
  /\ \E doc \in SitemapBodies :
       /\ sitemapResponse' =
            [threw |-> FALSE, status |-> sitemapResponse.status, ok |-> TRUE,
             content |-> doc]
       /\ sitemapData' = SitemapParsed(doc, currentUrl)
  /\ smpc' = "done"
  /\ UNCHANGED <<currentUrl, notSitemapVars>>

NextSitemap ==
  \/ SitemapFetchThrows
  \/ SitemapFetchNotOk
  \/ SitemapFetchOk
  \/ SitemapBodyThrows
  \/ SitemapBodyRead

(***************************************************************************)
(* analyzeDomain(url)                                                      *)
(***************************************************************************)
\* values of ageInYears
NullAge == [kind |-> "null"]
NaNAge == [kind |-> "NaN"]
NumberAge(n) == [kind |-> "number", v |-> n]

\* a value used as a condition
Truthy(age) == age.kind = "number" /\ age.v # 0

\* days between the first snapshot and now
DayInputs == {-1, 0, 29, 30, 364, 365, 1094, 1095, 1824, 1825, 3649, 3650}

\* what response.json() resolves to
\*   null       the JSON value null
\*   rows       an array of n rows whose second row, if any, has no timestamp
\*   nullRow    an array whose second row is null
\*   badStamp   a second row whose timestamp does not start with digits
\*   snapshot   a second row with a timestamp that many days in the past
ArchiveData ==
  {[kind |-> "null"], [kind |-> "nullRow"], [kind |-> "badStamp"]}
    \cup {[kind |-> "rows", n |-> n] : n \in 0..2}
    \cup {[kind |-> "snapshot", days |-> d] : d \in DayInputs}

\* hostnames, as their dot-separated labels
HostInputs == {<<"x", "test">>, <<"www", "x", "test">>}

DomainUrlInputs ==
  [valid : {TRUE}, https : BOOLEAN, hostname : HostInputs]
    \cup [valid : {FALSE}, https : BOOLEAN, hostname : {<< >>}]

\* Math.floor((now - firstSeen) / (1000 * 60 * 60 * 24 * 365))
YearsOf(days) == days \div 365
\* Math.floor((now - firstSeen) / (1000 * 60 * 60 * 24 * 30))
MonthsOf(days) == days \div 30

\* the value ageInYears is left with
AgeInYears(data) ==
  CASE data.kind = "snapshot" -> NumberAge(YearsOf(data.days))
    [] data.kind = "badStamp" -> NaNAge
    [] OTHER                  -> NullAge

\* the value ageEstimate is left with
AgeEstimate(data) ==
  IF data.kind = "snapshot" /\ YearsOf(data.days) >= 0
    THEN IF YearsOf(data.days) < 1
           THEN IF MonthsOf(data.days) < 1 THEN "Less than 1 month"
                ELSE ToString(MonthsOf(data.days)) \o " months"
         ELSE IF YearsOf(data.days) < 5
           THEN ToString(YearsOf(data.days)) \o " years"
         ELSE IF YearsOf(data.days) < 10
           THEN ToString(YearsOf(data.days)) \o " years (Established)"
         ELSE ToString(YearsOf(data.days)) \o "+ years (Very Established)"
    ELSE "Unknown"

estimatedAuthority(ageInYears) ==
  IF Truthy(ageInYears)
    THEN IF ageInYears.v >= 3 THEN "Established"
         ELSE IF ageInYears.v >= 1 THEN "Moderate" ELSE "New"
    ELSE "Unknown"

\* the record returned at the end of the outer try block
DomainInfo(u, ageEstimate, ageInYears) ==
  LET isSubdomain == Len(u.hostname) > 2
  IN  [hostname   |-> u.hostname,
       domainName |-> IF isSubdomain
                        THEN SubSeq(u.hostname, Len(u.hostname) - 1, Len(u.hostname))
                        ELSE u.hostname,
       tld        |-> u.hostname[Len(u.hostname)],
       age        |-> ageEstimate,
       ageInYears |-> ageInYears,
       ssl        |-> u.https,
       subdomain  |-> isSubdomain,
       estimatedAuthority |-> estimatedAuthority(ageInYears)]

\* the record returned by the outer catch block
DomainError(u) ==
  [hostname |-> <<"Unknown">>, age |-> "Unknown", ssl |-> u.https, error |-> "Invalid URL"]

DomainStart ==
  /\ dpc = "start"
  /\ targetUrl \in DomainUrlInputs
  /\ archiveResponse = [pending |-> TRUE]
  /\ domainInfo = NoResult

IdleDomain ==
  /\ dpc = "idle"
  /\ targetUrl = [valid |-> FALSE, https |-> FALSE, hostname |-> << >>]
  /\ archiveResponse = [pending |-> TRUE]
  /\ domainInfo = NoResult

\* new URL(url) throws
DomainUrlThrows ==
  /\ dpc = "start"
  /\ ~targetUrl.valid
  /\ domainInfo' = DomainError(targetUrl)
  /\ dpc' = "done"
  /\ UNCHANGED <<targetUrl, archiveResponse, notDomainVars>>

\* fetch rejects: network error, or the 3000 ms abort
DomainFetchThrows ==
  /\ dpc = "start"
  /\ targetUrl.valid
  /\ archiveResponse' = Threw
  /\ domainInfo' = DomainInfo(targetUrl, "Unknown", NullAge)
  /\ dpc' = "done"
  /\ UNCHANGED <<targetUrl, notDomainVars>>

DomainFetchNotOk ==
  /\ dpc = "start"
  /\ targetUrl.valid
  /\ \E status \in NotOkStatuses : archiveResponse' = Response(status)
  /\ domainInfo' = DomainInfo(targetUrl, "Unknown", NullAge)
  /\ dpc' = "done"
  /\ UNCHANGED <<targetUrl, notDomainVars>>

DomainFetchOk ==
  /\ dpc = "start"
  /\ targetUrl.valid
  /\ \E status \in OkStatuses : archiveResponse' = Response(status)
  /\ dpc' = "json"
  /\ UNCHANGED <<targetUrl, domainInfo, notDomainVars>>

\* response.json() rejects: the body is not JSON
DomainJsonThrows ==
  /\ dpc = "json"
  /\ archiveResponse' = [archiveResponse EXCEPT !.threw = TRUE]
  /\ domainInfo' = DomainInfo(targetUrl, "Unknown", NullAge)
  /\ dpc' = "done"
  /\ UNCHANGED <<targetUrl, notDomainVars>>

\* response.json() resolves; reading data[1][1] of a null row throws and is
\* caught like a failed fetch
DomainJsonParsed ==
  /\ dpc = "json"
  /\ \E data \in ArchiveData :
       /\ archiveResponse' =
            [threw |-> FALSE, status |-> archiveResponse.status, ok |-> TRUE,
             data |-> data]
       /\ domainInfo' = DomainInfo(targetUrl, AgeEstimate(data), AgeInYears(data))
  /\ dpc' = "done"
  /\ UNCHANGED <<targetUrl, notDomainVars>>

NextDomain ==
  \/ DomainUrlThrows
  \/ DomainFetchThrows
  \/ DomainFetchNotOk
  \/ DomainFetchOk
  \/ DomainJsonThrows
  \/ DomainJsonParsed

(***************************************************************************)
(* The audit: app.post('/api/audit') and scrapeSite(targetUrl).            *)
(* The repository holds two scrapeSite functions.  The one of server.js    *)
(* calls chromeLauncher.launch, and the module binds no chromeLauncher     *)
(* (the import binds ChromeLauncher): the call throws a ReferenceError and *)
(* nothing after it runs.  The one of part_000 launches the browser with   *)
(* puppeteer.launch.                                                       *)
(***************************************************************************)
Variants == {"server.js", "part_000"}

H_http  == <<"h","t","t","p">>
H_https == <<"h","t","t","p","s",":","/","/">>
\* "x.test"
R_bare  == <<"x",".","t","e","s","t">>

\* req.body.url: absent, without a scheme, with a scheme
RequestUrls == {Null, Some(R_bare), Some(S_home)}

\* if (!url.startsWith('http')) url = 'https://' + url
NormalizeUrl(u) == IF startsWith(u, H_http) THEN u ELSE H_https \o u

\* Math.round(score * 100) of the Lighthouse categories
LighthouseScores == {0, 55, 100}

DefaultMetrics == [performance |-> 0, seo |-> 0]

\* the documents page.content() can return, and $('h1').length of each
PageHtmls == {"<html><body><h1>Home</h1></body></html>", "<html><body></body></html>"}
H1Count(content) == IF content = "<html><body><h1>Home</h1></body></html>" THEN 1 ELSE 0

Placeholder == "<body><h1>Content unavailable</h1></body>"

\* let structure = {}
EmptyStructure == [extracted |-> FALSE]
Extracted(content) == [extracted |-> TRUE, h1Count |-> H1Count(content)]

\* catch (pupError) { html = "<body><h1>Content unavailable</h1></body>" }
CatchPupError_KeepHtml(e) == [html |-> "", pupError |-> Some(e)]

CatchPupError(e) == [html |-> Placeholder, pupError |-> Some(e)]

NoResponse == [status |-> 0]
\* res.status(400).json({ error: "URL is required" })
BadRequest == [status |-> 400, error |-> "URL is required"]
\* res.status(500).json({ error: ..., details: error.message })
AuditFailed(message) == [status |-> 500, details |-> message]
\* res.json({ url, timestamp, metrics, structure, report })
Report(u, m, st, advice) ==
  [status |-> 200, url |-> u, metrics |-> m, structure |-> st, report |-> advice]

\* what getAIAdvice returns: the model's answer, or its fallback on an error
Advice == {"AI", "AI Busy"}

AuditStart ==
  /\ variant \in Variants
  /\ apc = "request"
  /\ reqUrl \in RequestUrls
  /\ browser = "none"
  /\ chromeTemp = TRUE
  /\ metrics = DefaultMetrics
  /\ lhError = Null
  /\ html = ""
  /\ pupError = Null
  /\ structure = EmptyStructure
  /\ res = NoResponse

IdleAudit ==
  /\ variant = "none"
  /\ apc = "idle"
  /\ reqUrl = Null
  /\ browser = "none"
  /\ chromeTemp = TRUE
  /\ metrics = DefaultMetrics
  /\ lhError = Null
  /\ html = ""
  /\ pupError = Null
  /\ structure = EmptyStructure
  /\ res = NoResponse

\* if (!url) return res.status(400).json(...)
RejectRequest ==
  /\ apc = "request"
  /\ reqUrl = Null
  /\ res' = BadRequest
  /\ apc' = "responded"
  /\ UNCHANGED <<variant, reqUrl, browser, chromeTemp, metrics, html, pupError,
                 structure, lhError, notAuditVars>>

\* the url is normalized and scrapeSite(url) is called
AcceptRequest ==
  /\ apc = "request"
  /\ reqUrl # Null
  /\ reqUrl' = Some(NormalizeUrl(reqUrl[1]))
  /\ apc' = "import"
  /\ UNCHANGED <<variant, browser, chromeTemp, metrics, html, pupError,
                 structure, res, lhError, notAuditVars>>

\* await import('lighthouse') resolves
ImportLighthouse ==
  /\ apc = "import"
  /\ apc' = "launch"
  /\ UNCHANGED <<variant, reqUrl, browser, chromeTemp, metrics, html, pupError,
                 structure, res, lhError, notAuditVars>>

\* server.js: a rejected import is outside every try block of scrapeSite; the
\* handler's catch answers 500
ImportThrowsEscapes ==
  /\ apc = "import"
  /\ variant = "server.js"
  /\ res' = AuditFailed("import")
  /\ apc' = "responded"
  /\ UNCHANGED <<variant, reqUrl, browser, chromeTemp, metrics, html, pupError,
                 structure, lhError, notAuditVars>>

\* server.js: chromeLauncher is not defined; the handler's catch answers 500
ChromeLauncherUnbound ==
  /\ apc = "launch"
  /\ variant = "server.js"
  /\ res' = AuditFailed("chromeLauncher is not defined")
  /\ apc' = "responded"
  /\ UNCHANGED <<variant, reqUrl, browser, chromeTemp, metrics, html, pupError,
                 structure, lhError, notAuditVars>>

\* part_000: a rejected import is caught as lhError
ImportThrowsCaught ==
  /\ apc = "import"
  /\ variant = "part_000"
  /\ lhError' = Some("import")
  /\ apc' = "render"
  /\ UNCHANGED <<variant, reqUrl, browser, chromeTemp, metrics, html, pupError,
                 structure, res, notAuditVars>>

\* part_000: puppeteer.launch resolves
PuppeteerLaunch ==
  /\ apc = "launch"
  /\ variant = "part_000"
  /\ browser' = "connected"
  /\ apc' = "lighthouse"
  /\ UNCHANGED <<variant, reqUrl, chromeTemp, metrics, html, pupError,
                 structure, res, lhError, notAuditVars>>

\* part_000: puppeteer.launch rejects, caught as lhError
PuppeteerLaunchThrows ==
  /\ apc = "launch"
  /\ variant = "part_000"
  /\ lhError' = Some("launch")
  /\ apc' = "render"
  /\ UNCHANGED <<variant, reqUrl, browser, chromeTemp, metrics, html, pupError,
                 structure, res, notAuditVars>>

\* lighthouse(targetUrl, options) resolves and the metrics are filled in
RunLighthouse ==
  /\ apc = "lighthouse"
  /\ metrics' \in [performance : LighthouseScores, seo : LighthouseScores]
  /\ browser' \in {"connected", "disconnected"}
  /\ apc' = "render"
  /\ UNCHANGED <<variant, reqUrl, chromeTemp, html, pupError, structure, res,
                 lhError, notAuditVars>>

\* lighthouse rejects, caught as lhError: the metrics keep their defaults
RunLighthouseThrows ==
  /\ apc = "lighthouse"
  /\ browser' \in {"connected", "disconnected"}
  /\ lhError' = Some("lighthouse")
  /\ apc' = "render"
  /\ UNCHANGED <<variant, reqUrl, chromeTemp, metrics, html, pupError,
                 structure, res, notAuditVars>>

\* if (!browser || !browser.isConnected()) browser = await puppeteer.launch(...)
Relaunch ==
  /\ apc = "render"
  /\ browser # "connected"
  /\ browser' = "connected"
  /\ UNCHANGED <<variant, apc, reqUrl, chromeTemp, metrics, html, pupError,
                 structure, res, lhError, notAuditVars>>

\* the second launch rejects, caught as pupError
RelaunchThrows ==
  /\ apc = "render"
  /\ browser # "connected"
  /\ html' = CatchPupError("relaunch").html
  /\ pupError' = CatchPupError("relaunch").pupError
  /\ apc' = "cleanup"
  /\ UNCHANGED <<variant, reqUrl, browser, chromeTemp, metrics, structure, res,
                 lhError, notAuditVars>>

\* newPage, goto and content resolve; the structure is extracted
RenderPage ==
  /\ apc = "render"
  /\ browser = "connected"
  /\ \E content \in PageHtmls :
       /\ html' = content
       /\ structure' = Extracted(content)
  /\ apc' = "cleanup"
  /\ UNCHANGED <<variant, reqUrl, browser, chromeTemp, metrics, pupError, res,
                 lhError, notAuditVars>>

\* newPage, goto or content rejects, caught as pupError
RenderPageThrows ==
  /\ apc = "render"
  /\ browser = "connected"
  /\ html' = CatchPupError("goto").html
  /\ pupError' = CatchPupError("goto").pupError
  /\ browser' \in {"connected", "disconnected"}
  /\ apc' = "cleanup"
  /\ UNCHANGED <<variant, reqUrl, chromeTemp, metrics, structure, res, lhError,
                 notAuditVars>>

\* finally: browser.close() resolves (or there is no browser), then rmSync
\* runs inside its own try block and may fail silently
CloseBrowser ==
  /\ apc = "cleanup"
  /\ browser' = IF browser = "none" THEN "none" ELSE "closed"
  /\ chromeTemp' \in {FALSE, chromeTemp}
  /\ apc' = "advice"
  /\ UNCHANGED <<variant, reqUrl, metrics, html, pupError, structure, res,
                 lhError, notAuditVars>>

\* finally: browser.close() rejects; rmSync is skipped, the error leaves
\* scrapeSite and the handler's catch answers 500
CloseBrowserThrows ==
  /\ apc = "cleanup"
  /\ browser # "none"
  /\ res' = AuditFailed("close")
  /\ apc' = "responded"
  /\ UNCHANGED <<variant, reqUrl, browser, chromeTemp, metrics, html, pupError,
                 structure, lhError, notAuditVars>>

\* getAIAdvice returns (it catches its own errors) and the report is sent
SendReport ==
  /\ apc = "advice"
  /\ \E advice \in Advice : res' = Report(reqUrl[1], metrics, structure, advice)
  /\ apc' = "responded"
  /\ UNCHANGED <<variant, reqUrl, browser, chromeTemp, metrics, html, pupError,
                 structure, lhError, notAuditVars>>

NextAudit ==
  \/ RejectRequest
  \/ AcceptRequest
  \/ ImportLighthouse
  \/ ImportThrowsEscapes
  \/ ChromeLauncherUnbound
  \/ ImportThrowsCaught
  \/ PuppeteerLaunch
  \/ PuppeteerLaunchThrows
  \/ RunLighthouse
  \/ RunLighthouseThrows
  \/ Relaunch
  \/ RelaunchThrows
  \/ RenderPage
  \/ RenderPageThrows
  \/ CloseBrowser
  \/ CloseBrowserThrows
  \/ SendReport

(***************************************************************************)
(* analyzeKeywords(text, title, description) and                           *)
(* analyzeKeywordIntent(text, title, description)                          *)
(***************************************************************************)
Digits == {"0","1","2","3","4","5","6","7","8","9"}
LowerSet == {LowerChars[i] : i \in 1..26}
UpperSet == {UpperChars[i] : i \in 1..26}
\* the class \w of a regular expression
IsWordChar(c) == c \in LowerSet \cup UpperSet \cup Digits \cup {"_"}

\* the maximal runs of \w characters of s, in order
RECURSIVE WordRuns(_)
WordRuns(s) ==
  IF s = << >> THEN << >>
  ELSE IF ~IsWordChar(s[1]) THEN WordRuns(Tail(s))
  ELSE LET n == IF \A i \in 1..Len(s) : IsWordChar(s[i]) THEN Len(s)
                ELSE (CHOOSE i \in 1..Len(s) :
                        /\ ~IsWordChar(s[i])
                        /\ \A j \in 1..(i - 1) : IsWordChar(s[j])) - 1
       IN  <<SubSeq(s, 1, n)>> \o WordRuns(substring(s, n))

IsLetterWord(w) == Len(w) >= 3 /\ \A i \in 1..Len(w) : w[i] \in LowerSet

\* s.match(/\b[a-z]{3,}\b/g) || []: a match starts and ends at a word
\* boundary, so it is a whole run of \w characters made of 3 or more letters
MatchWords(s) == SelectSeq(WordRuns(s), IsLetterWord)

stopWords ==
  <<<<"t","h","e">>, <<"a","n","d">>, <<"f","o","r">>, <<"a","r","e">>,
    <<"b","u","t">>, <<"n","o","t">>, <<"y","o","u">>, <<"a","l","l">>,
    <<"c","a","n">>, <<"h","e","r">>, <<"w","a","s">>, <<"o","n","e">>,
    <<"o","u","r">>, <<"o","u","t">>, <<"d","a","y">>, <<"g","e","t">>,
    <<"h","a","s">>, <<"h","i","m">>, <<"h","i","s">>, <<"h","o","w">>,
    <<"i","t","s">>, <<"m","a","y">>, <<"n","e","w">>, <<"n","o","w">>,
    <<"o","l","d">>, <<"s","e","e">>, <<"t","w","o">>, <<"w","h","o">>,
    <<"w","a","y">>, <<"u","s","e">>, <<"s","h","e">>, <<"h","a","d">>,
    <<"t","h","i","s">>, <<"t","h","a","t">>, <<"f","r","o","m">>,
    <<"t","h","e","y">>, <<"w","i","t","h">>, <<"h","a","v","e">>,
    <<"w","h","a","t">>, <<"w","e","r","e">>, <<"w","h","e","n">>,
    <<"y","o","u","r">>, <<"s","a","i","d">>, <<"e","a","c","h">>,
    <<"w","h","i","c","h">>, <<"t","h","e","i","r">>, <<"t","i","m","e">>,
    <<"w","i","l","l">>, <<"a","b","o","u","t">>, <<"w","o","u","l","d">>,
    <<"t","h","e","r","e">>, <<"c","o","u","l","d">>,
    <<"o","t","h","e","r">>, <<"a","f","t","e","r">>,
    <<"f","i","r","s","t">>, <<"n","e","v","e","r">>,
    <<"t","h","e","s","e">>, <<"t","h","i","n","k">>,
    <<"w","h","e","r","e">>, <<"b","e","i","n","g">>,
    <<"t","h","o","s","e">>, <<"s","h","a","l","l">>,
    <<"s","h","o","u","l","d">>, <<"t","h","a","n">>, <<"t","h","e","m">>,
    <<"t","h","e","n">>, <<"t","h","e","s","e">>, <<"t","h","e","y">>,
    <<"t","h","i","s">>, <<"t","h","o","s","e">>,
    <<"t","h","r","o","u","g","h">>, <<"t","o">>, <<"t","o","o">>,
    <<"u","n","d","e","r">>, <<"u","n","t","i","l">>, <<"u","p">>,
    <<"v","e","r","y">>, <<"w","a","s">>, <<"w","e">>, <<"w","e","r","e">>,
    <<"w","h","a","t">>, <<"w","h","e","n">>, <<"w","h","e","r","e">>,
    <<"w","h","i","c","h">>, <<"w","h","i","l","e">>, <<"w","h","o">>,
    <<"w","h","o","m">>, <<"w","h","y">>, <<"w","i","t","h">>,
    <<"w","o","u","l","d">>, <<"y","o","u">>, <<"y","o","u","r">>>>

Contains(ws, w) == \E i \in 1..Len(ws) : ws[i] = w

\* `${title} ${description} ${text}`
Combined(text, title, description) ==
  title \o <<" ">> \o description \o <<" ">> \o text

\* the keys of wordFreq in insertion order: the words that are not stop
\* words, by first occurrence
RECURSIVE FreqKeys(_)
FreqKeys(ws) ==
  IF ws = << >> THEN << >>
  ELSE LET before == FreqKeys(SubSeq(ws, 1, Len(ws) - 1))
           w == ws[Len(ws)]
       IN  IF Contains(stopWords, w) \/ Contains(before, w) THEN before
           ELSE Append(before, w)

CountOf(ws, w) == Cardinality({i \in 1..Len(ws) : ws[i] = w})

\* [...new Set([...titleWords, ...descWords])]; it is read with includes and
\* with length > 0 only, which duplicates do not change
ImportantKeywords(title, description) ==
  MatchWords(toLowerCase(title)) \o MatchWords(toLowerCase(description))

\* the key the comparator sorts by, largest first
SortKey(ws, important, w) ==
  CountOf(ws, w) + (IF Contains(important, w) THEN 1000 ELSE 0)

\* Array.prototype.sort with that comparator: stable, by decreasing key
RECURSIVE SortWords(_, _, _)
SortWords(keys, ws, important) ==
  IF keys = << >> THEN << >>
  ELSE LET sorted == SortWords(SubSeq(keys, 1, Len(keys) - 1), ws, important)
           w == keys[Len(keys)]
           k == Cardinality({i \in 1..Len(sorted) :
                  SortKey(ws, important, sorted[i]) >= SortKey(ws, important, w)})
       IN  SubSeq(sorted, 1, k) \o <<w>> \o SubSeq(sorted, k + 1, Len(sorted))

TopLimit == 10
Top(ws) == SubSeq(ws, 1, IF Len(ws) < TopLimit THEN Len(ws) ELSE TopLimit)

\* the record returned (the density string of each keyword is left out)
analyzeKeywords(text, title, description) ==
  LET words == MatchWords(toLowerCase(Combined(text, title, description)))
      important == ImportantKeywords(title, description)
      keys == FreqKeys(words)
      top == Top(SortWords(keys, words, important))
  IN  [totalWords  |-> Len(words),
       uniqueWords |-> Len(keys),
       topKeywords |-> [i \in 1..Len(top) |->
                         [word |-> top[i], count |-> CountOf(words, top[i]),
                          relevance |-> IF Contains(important, top[i])
                                          THEN "High" ELSE "Medium"]],
       semanticRelevance |-> IF Len(important) > 0 THEN "Good"
                             ELSE "Needs Improvement"]

\* intentPatterns, in declaration order
Intents == <<"informational", "navigational", "transactional", "commercial">>
intentPatterns ==
  [informational |->
     <<<<"w","h","a","t">>, <<"h","o","w">>, <<"w","h","y">>,
       <<"g","u","i","d","e">>, <<"t","u","t","o","r","i","a","l">>,
       <<"l","e","a","r","n">>, <<"u","n","d","e","r","s","t","a","n","d">>,
       <<"e","x","p","l","a","i","n">>,
       <<"d","e","f","i","n","i","t","i","o","n">>>>,
   navigational |->
     <<<<"l","o","g","i","n">>, <<"s","i","g","n"," ","i","n">>,
       <<"a","c","c","o","u","n","t">>, <<"d","a","s","h","b","o","a","r","d">>,
       <<"h","o","m","e">>, <<"c","o","n","t","a","c","t">>>>,
   transactional |->
     <<<<"b","u","y">>, <<"p","u","r","c","h","a","s","e">>,
       <<"o","r","d","e","r">>, <<"p","r","i","c","e">>, <<"c","o","s","t">>,
       <<"d","i","s","c","o","u","n","t">>, <<"s","a","l","e">>,
       <<"s","h","o","p">>, <<"c","a","r","t">>,
       <<"c","h","e","c","k","o","u","t">>>>,
   commercial |->
     <<<<"c","o","m","p","a","r","e">>, <<"b","e","s","t">>,
       <<"r","e","v","i","e","w">>, <<"v","s">>, <<"t","o","p">>,
       <<"a","l","t","e","r","n","a","t","i","v","e">>,
       <<"r","e","c","o","m","m","e","n","d">>>>]

\* keywords.filter(keyword => content.includes(keyword)).length
Matches(content, keywords) ==
  Cardinality({i \in 1..Len(keywords) : includes(content, keywords[i])})

IntentScores(content) ==
  [intent \in {Intents[i] : i \in 1..Len(Intents)} |->
     Matches(content, intentPatterns[intent])]

\* Object.keys(intentScores).reduce((a, b) => scores[a] > scores[b] ? a : b)
\* over the first n keys
RECURSIVE PrimaryIntent(_, _)
PrimaryIntent(scores, n) ==
  IF n = 1 THEN Intents[1]
  ELSE LET a == PrimaryIntent(scores, n - 1)
           b == Intents[n]
       IN  IF scores[a] > scores[b] THEN a ELSE b

\* Math.round(x) for the non-negative rational x = num / den
Round(num, den) == (2 * num + den) \div (2 * den)

Min(a, b) == IF a < b THEN a ELSE b
Max(a, b) == IF a > b THEN a ELSE b

\* Math.round(Math.min(100, (score / maxPossibleMatches) * 100)), or 0
Confidence_Unscaled(score, maxPossibleMatches) ==
  IF score > 0 THEN Round(score * 100, 1) ELSE 0

Confidence(score, maxPossibleMatches) ==
  IF score > 0
    THEN Min(100, Round(score * 100, maxPossibleMatches))
    ELSE 0

analyzeKeywordIntent(text, title, description) ==
  LET content == toLowerCase(Combined(text, title, description))
      scores == IntentScores(content)
      primary == PrimaryIntent(scores, Len(Intents))
      confidence == Confidence(scores[primary], Len(intentPatterns[primary]))
  IN  [primaryIntent |-> primary,
       confidence    |-> confidence,
       intentScores  |-> scores,
       aligned       |-> confidence > 30]

V_how == <<"h","o","w">>
V_login == <<"l","o","g","i","n">>
V_buy == <<"b","u","y">>
V_best == <<"b","e","s","t">>
V_laptop == <<"l","a","p","t","o","p">>
V_the == <<"t","h","e">>
V_ab == <<"a","b">>
V_42 == <<"4","2">>
V_Guide == <<"G","u","i","d","e">>
V_abc1 == <<"a","b","c","1">>

Vocabulary == {V_how, V_login, V_buy, V_best, V_laptop, V_the, V_ab, V_42, V_Guide, V_abc1}
TitleInputs == {<< >>, V_buy}
\* "how to"
D_howTo == <<"h","o","w"," ","t","o">>
DescriptionInputs == {<< >>, D_howTo}
TextInputs == {join(ws, " ") : ws \in SeqUpTo(Vocabulary, MaxWords)}

KeywordCalls ==
  /\ call \in [fn : {"analyzeKeywords", "analyzeKeywordIntent"},
               text : TextInputs, title : TitleInputs,
               description : DescriptionInputs]
  /\ ret = NoRet

CallAnalyzeKeywords ==
  /\ call.fn = "analyzeKeywords"
  /\ ~ret.done
  /\ ret' = Returned(analyzeKeywords(call.text, call.title, call.description))
  /\ UNCHANGED <<call, notCallVars>>

CallAnalyzeKeywordIntent ==
  /\ call.fn = "analyzeKeywordIntent"
  /\ ~ret.done
  /\ ret' = Returned(analyzeKeywordIntent(call.text, call.title, call.description))
  /\ UNCHANGED <<call, notCallVars>>

(***************************************************************************)
(* URLs: new URL(s), new URL(s, base), and the parts read from them.  A    *)
(* URL string is a sequence of characters.  Only http and https URLs       *)
(* without query and fragment occur in the inputs.                         *)
(***************************************************************************)
SlashSlash  == <<"/","/">>
Slash       == <<"/">>
SchemeHttp  == <<"h","t","t","p",":","/","/">>
SchemeHttps == <<"h","t","t","p","s",":","/","/">>

\* the scheme prefix of s, or << >>
SchemeOf(s) ==
  IF startsWith(s, SchemeHttps) THEN SchemeHttps
  ELSE IF startsWith(s, SchemeHttp) THEN SchemeHttp
  ELSE << >>

\* new URL(s) does not throw: a scheme followed by a host
CanParse(s) ==
  /\ SchemeOf(s) # << >>
  /\ Len(s) > Len(SchemeOf(s))
  /\ s[Len(SchemeOf(s)) + 1] # "/"

\* new URL(s).protocol, for an s that parses: "http:" or "https:"
ProtocolOf(s) == SubSeq(s, 1, Len(SchemeOf(s)) - 2)

\* new URL(s).host
HostOf(s) == split(substring(s, Len(SchemeOf(s))), "/")[1]

\* new URL(s).pathname: "/" when the string has no path
PathnameOf(s) ==
  IF Len(s) = Len(SchemeOf(s)) + Len(HostOf(s)) THEN Slash
  ELSE substring(s, Len(SchemeOf(s)) + Len(HostOf(s)))

OriginOf(s) == SchemeOf(s) \o HostOf(s)

\* new URL(s).href: the string with its path made explicit
HrefOf(s) == OriginOf(s) \o PathnameOf(s)

\* the path up to and including its last "/"
DirOf(p) ==
  SubSeq(p, 1, CHOOSE i \in 1..Len(p) :
                 p[i] = "/" /\ \A j \in (i + 1)..Len(p) : p[j] # "/")

\* new URL(s, base).href as Some(href), or Null when the constructor throws
Resolve(s, base) ==
  IF CanParse(s) THEN Some(HrefOf(s))
  ELSE IF ~CanParse(base) THEN Null
  ELSE IF startsWith(s, SlashSlash)
    THEN IF CanParse(ProtocolOf(base) \o s)
           THEN Some(HrefOf(ProtocolOf(base) \o s)) ELSE Null
  ELSE IF startsWith(s, Slash) THEN Some(OriginOf(base) \o s)
  ELSE Some(OriginOf(base) \o DirOf(PathnameOf(base)) \o s)

(***************************************************************************)
(* analyzeHreflang($, baseUrl, htmlContent)                                *)
(***************************************************************************)
\* href attributes found in pages
\* "https://x.test/en"
A_en        == <<"h","t","t","p","s",":","/","/","x",".","t","e","s","t","/","e","n">>
\* "/fr"
A_rootFr    == <<"/","f","r">>
\* "//x.test/en"
A_protoRel  == <<"/","/","x",".","t","e","s","t","/","e","n">>
\* "httpdocs/en": a relative path that starts with the letters http
A_httpdocs  == <<"h","t","t","p","d","o","c","s","/","e","n">>
\* "de/"
A_relDe     == <<"d","e","/">>

\* link[rel="alternate"][hreflang] elements: the hreflang and href
\* attributes, "" and << >> standing for an empty or absent one
AlternateLinks ==
  {[hreflang |-> "en", href |-> A_en],
   [hreflang |-> "en", href |-> S_about],
   [hreflang |-> "fr", href |-> A_rootFr],
   [hreflang |-> "en", href |-> A_protoRel],
   [hreflang |-> "de", href |-> A_httpdocs],
   [hreflang |-> "x-default", href |-> A_relDe],
   [hreflang |-> "", href |-> A_en],
   [hreflang |-> "es", href |-> << >>]}

\* the audited URLs
BaseUrls == {S_home, S_about}

\* hreflang="..." values that occur in the HTML outside link elements
OtherHreflangs == {<< >>, <<"it">>}

\* the href stored for a link
AbsoluteHref(href, baseUrl) ==
  IF ~startsWith(href, H_http) /\ ~startsWith(href, SlashSlash)
    THEN IF Resolve(href, baseUrl) # Null THEN Resolve(href, baseUrl)[1] ELSE href
  ELSE IF startsWith(href, SlashSlash) THEN ProtocolOf(baseUrl) \o href
  ELSE href

\* the each() loop over the link elements
RECURSIVE Hreflangs(_, _)
Hreflangs(links, baseUrl) ==
  IF links = << >> THEN << >>
  ELSE LET before == Hreflangs(SubSeq(links, 1, Len(links) - 1), baseUrl)
           link == links[Len(links)]
       IN  IF link.hreflang # "" /\ link.href # << >>
             THEN Append(before, [lang |-> link.hreflang,
                                  href |-> AbsoluteHref(link.href, baseUrl),
                                  source |-> "HTML"])
             ELSE before

\* new URL(h.href).pathname === new URL(baseUrl).pathname, false on a throw
IsSelfReference(h, baseUrl) ==
  /\ CanParse(h.href)
  /\ CanParse(baseUrl)
  /\ PathnameOf(h.href) = PathnameOf(baseUrl)

\* the languages set: those of the entries, then those matched in the HTML
\* text (every non-empty hreflang attribute value of the page)
Languages(links, others) ==
  {links[i].hreflang : i \in {j \in 1..Len(links) : links[j].hreflang # ""}}
    \cup {others[i] : i \in 1..Len(others)}

\* the href of the first x-default link, << >> if there is none
XDefault(links) ==
  IF \E i \in 1..Len(links) : links[i].hreflang = "x-default"
    THEN links[CHOOSE i \in 1..Len(links) :
                 /\ links[i].hreflang = "x-default"
                 /\ \A j \in 1..(i - 1) : links[j].hreflang # "x-default"].href
    ELSE << >>

\* isValid && (hreflangs.length > 1 || hasSelfReference)
isValid(hreflangs, hasSelfReference) ==
  /\ Len(hreflangs) > 0
  /\ \A i \in 1..Len(hreflangs) : hreflangs[i].href # << >> /\ hreflangs[i].lang # ""
  /\ (Len(hreflangs) > 1 \/ hasSelfReference)

analyzeHreflang(links, baseUrl, others) ==
  LET hreflangs == Hreflangs(links, baseUrl)
      xDefault == XDefault(links)
      hasSelfReference ==
        \E i \in 1..Len(hreflangs) : IsSelfReference(hreflangs[i], baseUrl)
  IN  [found |-> Len(hreflangs) > 0,
       count |-> Len(hreflangs),
       languages |-> Languages(links, others),
       hreflangs |-> hreflangs,
       hasXDefault |-> xDefault # << >>,
       xDefaultUrl |-> IF xDefault = << >> THEN Null
                       ELSE IF startsWith(xDefault, H_http) THEN Some(xDefault)
                       ELSE Resolve(xDefault, baseUrl),
       isValid |-> isValid(hreflangs, hasSelfReference),
       hasSelfReference |-> hasSelfReference]

HreflangCalls ==
  /\ call \in [fn : {"analyzeHreflang"},
               links : SeqUpTo(AlternateLinks, MaxLinks),
               baseUrl : BaseUrls,
               others : OtherHreflangs]
  /\ ret = NoRet

CallAnalyzeHreflang ==
  /\ call.fn = "analyzeHreflang"
  /\ ~ret.done
  /\ ret' = Returned(analyzeHreflang(call.links, call.baseUrl, call.others))
  /\ UNCHANGED <<call, notCallVars>>

(***************************************************************************)
(* checkSitemap(url, robotsTxtSitemaps, $)                                 *)
(***************************************************************************)
\* "/sitemap.xml"
R_sitemap   == <<"/","s","i","t","e","m","a","p",".","x","m","l">>
\* "httpdocs/sitemap.xml": a relative path that starts with the letters http
R_httpdocs  == <<"h","t","t","p","d","o","c","s","/","s","i","t","e","m","a","p",".","x","m","l">>
\* "not a url"
S_invalid   == <<"n","o","t"," ","a"," ","u","r","l">>

MaxSitemaps == 2

\* Sitemap values a robots.txt may carry; "//" resolves against no base
RobotsSitemapInputs == {U_sitemap, R_sitemap, R_httpdocs, SlashSlash}
SiteUrlInputs == {S_home, S_blog, S_invalid}
SitemapLinkInputs == {R_sitemap}

commonSitemapPaths ==
  <<\* "/sitemap.xml"
    <<"/","s","i","t","e","m","a","p",".","x","m","l">>,
    \* "/sitemap_index.xml"
    <<"/","s","i","t","e","m","a","p","_","i","n","d","e","x",".","x","m","l">>,
    \* "/sitemap-index.xml"
    <<"/","s","i","t","e","m","a","p","-","i","n","d","e","x",".","x","m","l">>,
    \* "/sitemaps.xml"
    <<"/","s","i","t","e","m","a","p","s",".","x","m","l">>,
    \* "/sitemap1.xml"
    <<"/","s","i","t","e","m","a","p","1",".","x","m","l">>,
    \* "/wp-sitemap.xml"
    <<"/","w","p","-","s","i","t","e","m","a","p",".","x","m","l">>,
    \* "/sitemap_post.xml"
    <<"/","s","i","t","e","m","a","p","_","p","o","s","t",".","x","m","l">>,
    \* "/sitemap_page.xml"
    <<"/","s","i","t","e","m","a","p","_","p","a","g","e",".","x","m","l">>,
    \* "/sitemap_product.xml"
    <<"/","s","i","t","e","m","a","p","_","p","r","o","d","u","c","t",".","x","m","l">>,
    \* "/sitemap_category.xml"
    <<"/","s","i","t","e","m","a","p","_","c","a","t","e","g","o","r","y",".","x","m","l">>>>

\* content-type headers of a probe's response
ContentTypes == {"application/xml", "text/html", "image/png"}
IncludesXml(contentType) == contentType = "application/xml"
IncludesText(contentType) == contentType = "text/html"

NoProbe == [method |-> "none"]
ProbeThrew(method) == [method |-> method, threw |-> TRUE]
ProbeResponse(method, status, contentType) ==
  [method |-> method, threw |-> FALSE, ok |-> status \in 200..299,
   contentType |-> contentType]

\* bodies the sitemaps of the site answer with
DiscoveryBodies ==
  {UrlsetDocument(locs, TRUE) : locs \in SeqUpTo({S_home, S_blog}, 1)}
    \cup {IndexDocument(<<U_sitemap>>, TRUE), NotXmlDocument}

\* what await analyzeSitemapContent(sitemapUrl, url) may resolve to; it never
\* rejects
SitemapAnalyses(current) ==
  {SitemapNotAnalyzed(reason) : reason \in {"fetch", "HTTP", "body"}}
    \cup {SitemapParsed(doc, current) : doc \in DiscoveryBodies}

\* the entries pushed to foundSitemaps; accessible and analyzed are Some(b)
\* for a boolean b and Null for null or an absent field
AnalyzedSitemap(u, source, data) ==
  [url |-> u, source |-> source, accessible |-> Some(TRUE),
   analyzed |-> Some(data.analyzed), analysis |-> data]
InaccessibleSitemap(u) ==
  [url |-> u, source |-> "robots.txt", accessible |-> Some(FALSE),
   analyzed |-> Some(FALSE), analysis |-> NoResult]
LinkedSitemap(u) ==
  [url |-> u, source |-> "HTML link", accessible |-> Null,
   analyzed |-> Null, analysis |-> NoResult]

\* let absoluteUrl = sitemapUrl; if (!sitemapUrl.startsWith('http'))
\* absoluteUrl = new URL(sitemapUrl, url).href -- Null when the constructor
\* throws
AbsoluteUrl(sitemapUrl, base) ==
  IF startsWith(sitemapUrl, H_http) THEN Some(sitemapUrl) ELSE Resolve(sitemapUrl, base)

\* the each() loop over link[rel="sitemap"]
RECURSIVE LinkedSitemaps(_, _)
LinkedSitemaps(hrefs, base) ==
  IF hrefs = << >> THEN << >>
  ELSE LET before == LinkedSitemaps(SubSeq(hrefs, 1, Len(hrefs) - 1), base)
           href == hrefs[Len(hrefs)]
       IN  IF href # << >> /\ AbsoluteUrl(href, base) # Null
             THEN Append(before, LinkedSitemap(AbsoluteUrl(href, base)[1]))
             ELSE before

\* sitemap.analyzed && sitemap.analysis.subpageCoverage
Aggregated(found) ==
  {i \in 1..Len(found) : found[i].analyzed = Some(TRUE)}

RECURSIVE SumOver(_, _, _)
SumOver(found, indices, field) ==
  IF indices = {} THEN 0
  ELSE LET i == CHOOSE j \in indices : TRUE
       IN  found[i].analysis.subpageCoverage[field]
             + SumOver(found, indices \ {i}, field)

WithCurrentPage(found) ==
  {i \in Aggregated(found) : found[i].analysis.subpageCoverage.currentPageInSitemap}

\* the forEach that aggregates the coverage of the analyzed sitemaps
totalSubpageCoverage(found) ==
  [totalPages    |-> SumOver(found, Aggregated(found), "totalPages"),
   categoryPages |-> SumOver(found, Aggregated(found), "categoryPages"),
   productPages  |-> SumOver(found, Aggregated(found), "productPages"),
   blogPages     |-> SumOver(found, Aggregated(found), "blogPages"),
   staticPages   |-> SumOver(found, Aggregated(found), "staticPages"),
   hasCurrentPage       |-> WithCurrentPage(found) # {},
   currentPageInSitemap |-> WithCurrentPage(found) # {},
   sitemapsWithCurrentPage |-> Cardinality(WithCurrentPage(found))]

\* the record built after the three discovery steps
DiscoveryResult(found) ==
  [found      |-> Len(found) > 0,
   sitemaps   |-> found,
   url        |-> IF Len(found) > 0 THEN Some(found[1].url) ELSE Null,
   count      |-> Len(found),
   accessible |-> \E i \in 1..Len(found) : found[i].accessible = Some(TRUE),
   analyzed   |-> \E i \in 1..Len(found) : found[i].analyzed = Some(TRUE),
   subpageCoverage |-> totalSubpageCoverage(found),
   hasCurrentPageInSitemap |-> totalSubpageCoverage(found).currentPageInSitemap,
   error      |-> Null]

\* the record of the outer catch block; subpageCoverage is {}
DiscoveryError ==
  [found |-> FALSE, sitemaps |-> << >>, url |-> Null, count |-> 0,
   accessible |-> FALSE, analyzed |-> FALSE, subpageCoverage |-> << >>,
   hasCurrentPageInSitemap |-> FALSE, error |-> Some("Invalid URL")]

DiscoveryStart ==
  /\ cpc = "start"
  /\ siteUrl \in SiteUrlInputs
  /\ robotsTxtSitemaps \in SeqUpTo(RobotsSitemapInputs, MaxSitemaps)
  /\ sitemapLinks \in SeqUpTo(SitemapLinkInputs, 1)
  /\ ci = 0
  /\ pathIdx = 0
  /\ probe = NoProbe
  /\ foundSitemaps = << >>
  /\ discovery = NoResult

IdleDiscovery ==
  /\ cpc = "idle"
  /\ siteUrl = << >>
  /\ robotsTxtSitemaps = << >>
  /\ sitemapLinks = << >>
  /\ ci = 0
  /\ pathIdx = 0
  /\ probe = NoProbe
  /\ foundSitemaps = << >>
  /\ discovery = NoResult

\* steps 2 and 3 up to the first await, once the robots.txt sitemaps have
\* been visited: the page's sitemap links are pushed; with nothing found the
\* common paths are probed, otherwise the result is built
AfterRobotsSitemaps(found, visited) ==
  IF visited < Len(robotsTxtSitemaps)
    THEN /\ foundSitemaps' = found
         /\ cpc' = "head"
         /\ discovery' = discovery
  ELSE LET all == found \o LinkedSitemaps(sitemapLinks, siteUrl)
       IN  /\ foundSitemaps' = all
           /\ IF all = << >>
                THEN cpc' = "common" /\ discovery' = discovery
                ELSE cpc' = "done" /\ discovery' = DiscoveryResult(all)

\* new URL(url) throws: the outer catch block returns
DiscoveryUrlThrows ==
  /\ cpc = "start"
  /\ ~CanParse(siteUrl)
  /\ cpc' = "done"
  /\ discovery' = DiscoveryError
  /\ UNCHANGED <<siteUrl, robotsTxtSitemaps, sitemapLinks, ci, pathIdx, probe,
                 foundSitemaps, notDiscoveryVars>>

DiscoveryBegin ==
  /\ cpc = "start"
  /\ CanParse(siteUrl)
  /\ AfterRobotsSitemaps(<< >>, 0)
  /\ UNCHANGED <<siteUrl, robotsTxtSitemaps, sitemapLinks, ci, pathIdx, probe,
                 notDiscoveryVars>>

sitemapUrl == robotsTxtSitemaps[ci + 1]

\* new URL(sitemapUrl, url) throws in the try block, again in the first catch
\* block and again while the inaccessible entry is built: the outer catch
\* block returns
SitemapUrlThrows ==
  /\ cpc = "head"
  /\ AbsoluteUrl(sitemapUrl, siteUrl) = Null
  /\ cpc' = "done"
  /\ discovery' = DiscoveryError
  /\ UNCHANGED <<siteUrl, robotsTxtSitemaps, sitemapLinks, ci, pathIdx, probe,
                 foundSitemaps, notDiscoveryVars>>

\* fetch accepts absolute URLs only
Fetchable(u) == CanParse(u)

\* the HEAD probe answers 2xx: the sitemap is analyzed and pushed
HeadOk ==
  /\ cpc = "head"
  /\ AbsoluteUrl(sitemapUrl, siteUrl) # Null
  /\ Fetchable(AbsoluteUrl(sitemapUrl, siteUrl)[1])
  /\ \E contentType \in ContentTypes, data \in SitemapAnalyses(siteUrl) :
       /\ probe' = ProbeResponse("HEAD", 200, contentType)
       /\ AfterRobotsSitemaps(
            Append(foundSitemaps,
                   AnalyzedSitemap(AbsoluteUrl(sitemapUrl, siteUrl)[1], "robots.txt", data)),
            ci + 1)
  /\ ci' = ci + 1
  /\ UNCHANGED <<siteUrl, robotsTxtSitemaps, sitemapLinks, pathIdx, notDiscoveryVars>>

\* the HEAD probe answers outside 2xx: nothing is pushed
HeadNotOk ==
  /\ cpc = "head"
  /\ AbsoluteUrl(sitemapUrl, siteUrl) # Null
  /\ Fetchable(AbsoluteUrl(sitemapUrl, siteUrl)[1])
  /\ \E status \in NotOkStatuses, contentType \in ContentTypes :
       probe' = ProbeResponse("HEAD", status, contentType)
  /\ AfterRobotsSitemaps(foundSitemaps, ci + 1)
  /\ ci' = ci + 1
  /\ UNCHANGED <<siteUrl, robotsTxtSitemaps, sitemapLinks, pathIdx, notDiscoveryVars>>

\* the HEAD probe rejects: the catch block tries GET
HeadThrows ==
  /\ cpc = "head"
  /\ AbsoluteUrl(sitemapUrl, siteUrl) # Null
  /\ probe' = ProbeThrew("HEAD")
  /\ cpc' = "get"
  /\ UNCHANGED <<siteUrl, robotsTxtSitemaps, sitemapLinks, ci, pathIdx, foundSitemaps,
                 discovery, notDiscoveryVars>>

\* the GET rejects too: the sitemap is pushed as found but inaccessible
GetThrows ==
  /\ cpc = "get"
  /\ probe' = ProbeThrew("GET")
  /\ AfterRobotsSitemaps(
       Append(foundSitemaps, InaccessibleSitemap(AbsoluteUrl(sitemapUrl, siteUrl)[1])),
       ci + 1)
  /\ ci' = ci + 1
  /\ UNCHANGED <<siteUrl, robotsTxtSitemaps, sitemapLinks, pathIdx, notDiscoveryVars>>

\* the GET answers 2xx with an xml content type
GetXml ==
  /\ cpc = "get"
  /\ Fetchable(AbsoluteUrl(sitemapUrl, siteUrl)[1])
  /\ \E contentType \in {c \in ContentTypes : IncludesXml(c)},
        data \in SitemapAnalyses(siteUrl) :
       /\ probe' = ProbeResponse("GET", 200, contentType)
       /\ AfterRobotsSitemaps(
            Append(foundSitemaps,
                   AnalyzedSitemap(AbsoluteUrl(sitemapUrl, siteUrl)[1], "robots.txt", data)),
            ci + 1)
  /\ ci' = ci + 1
  /\ UNCHANGED <<siteUrl, robotsTxtSitemaps, sitemapLinks, pathIdx, notDiscoveryVars>>

\* the GET answers outside 2xx or without an xml content type
GetOther ==
  /\ cpc = "get"
  /\ Fetchable(AbsoluteUrl(sitemapUrl, siteUrl)[1])
  /\ \E status \in OkStatuses \cup NotOkStatuses, contentType \in ContentTypes :
       /\ ~(status \in 200..299 /\ IncludesXml(contentType))
       /\ probe' = ProbeResponse("GET", status, contentType)
  /\ AfterRobotsSitemaps(foundSitemaps, ci + 1)
  /\ ci' = ci + 1
  /\ UNCHANGED <<siteUrl, robotsTxtSitemaps, sitemapLinks, pathIdx, notDiscoveryVars>>

\* `${urlObj.protocol}//${urlObj.hostname}${path}`
CommonSitemapUrl(path) == ProtocolOf(siteUrl) \o SlashSlash \o HostOf(siteUrl) \o path

\* the loop over commonSitemapPaths goes on, or ends with nothing found
NextCommonPath ==
  /\ pathIdx' = pathIdx + 1
  /\ foundSitemaps' = foundSitemaps
  /\ IF pathIdx + 1 < Len(commonSitemapPaths)
       THEN cpc' = cpc /\ discovery' = discovery
       ELSE cpc' = "done" /\ discovery' = DiscoveryResult(foundSitemaps)

CommonPathThrows ==
  /\ cpc = "common"
  /\ probe' = ProbeThrew("HEAD")
  /\ NextCommonPath
  /\ UNCHANGED <<siteUrl, robotsTxtSitemaps, sitemapLinks, ci, notDiscoveryVars>>

\* the probe answers outside 2xx or with neither xml nor text
CommonPathMissing ==
  /\ cpc = "common"
  /\ \E status \in OkStatuses \cup NotOkStatuses, contentType \in ContentTypes :
       /\ ~(status \in 200..299 /\ (IncludesXml(contentType) \/ IncludesText(contentType)))
       /\ probe' = ProbeResponse("HEAD", status, contentType)
  /\ NextCommonPath
  /\ UNCHANGED <<siteUrl, robotsTxtSitemaps, sitemapLinks, ci, notDiscoveryVars>>

\* a variant without the break statement: the loop goes on after a sitemap
\* is pushed
CommonPathFound_NoBreak ==
  /\ cpc = "common"
  /\ \E contentType \in {c \in ContentTypes : IncludesXml(c) \/ IncludesText(c)},
        data \in SitemapAnalyses(siteUrl) :
       /\ probe' = ProbeResponse("HEAD", 200, contentType)
       /\ foundSitemaps' =
            Append(foundSitemaps,
                   AnalyzedSitemap(CommonSitemapUrl(commonSitemapPaths[pathIdx + 1]),
                                   "Common path", data))
  /\ pathIdx' = pathIdx + 1
  /\ IF pathIdx + 1 < Len(commonSitemapPaths)
       THEN cpc' = cpc /\ discovery' = discovery
       ELSE cpc' = "done" /\ discovery' = DiscoveryResult(foundSitemaps')
  /\ UNCHANGED <<siteUrl, robotsTxtSitemaps, sitemapLinks, ci, notDiscoveryVars>>

\* the probe finds a sitemap: it is analyzed and pushed, and the loop breaks
CommonPathFound ==
  /\ cpc = "common"
  /\ \E contentType \in {c \in ContentTypes : IncludesXml(c) \/ IncludesText(c)},
        data \in SitemapAnalyses(siteUrl) :
       /\ probe' = ProbeResponse("HEAD", 200, contentType)
       /\ foundSitemaps' =
            Append(foundSitemaps,
                   AnalyzedSitemap(CommonSitemapUrl(commonSitemapPaths[pathIdx + 1]),
                                   "Common path", data))
       /\ discovery' = DiscoveryResult(foundSitemaps')
  /\ pathIdx' = pathIdx + 1
  /\ cpc' = "done"
  /\ UNCHANGED <<siteUrl, robotsTxtSitemaps, sitemapLinks, ci, notDiscoveryVars>>

NextDiscovery ==
  \/ DiscoveryUrlThrows
  \/ DiscoveryBegin
  \/ SitemapUrlThrows
  \/ HeadOk
  \/ HeadNotOk
  \/ HeadThrows
  \/ GetThrows
  \/ GetXml
  \/ GetOther
  \/ CommonPathThrows
  \/ CommonPathMissing
  \/ CommonPathFound

(***************************************************************************)
(* calculateOpenGraphCompleteness(ogData)                                  *)
(***************************************************************************)
\* ogData as analyzeOpenGraph builds it:
\*   tags    the properties stored with a non-empty content, under the names
\*           of the meta elements ("fb:app_id" is facebook.app_id,
\*           "twitter:card" is twitter.card, and so on)
\*   images  the og:image entries; width and height are null or what
\*           parseInt made of the attribute
OpenGraphTags ==
  {"og:title", "og:description", "og:image", "og:url", "og:type", "og:site_name",
   "og:locale", "fb:app_id", "fb:page_id", "twitter:card", "twitter:site",
   "article:published_time", "video:duration"}

MaxImages == 2

ImageInputs ==
  {[width |-> NullAge, height |-> NullAge],
   [width |-> NumberAge(1200), height |-> NumberAge(630)],
   [width |-> NumberAge(0), height |-> NaNAge]}

Has(ogData, prop) == prop \in ogData.tags

maxScore == 100

\* a variant that gives og:locale five points
calculateOpenGraphCompleteness_LocaleFive(ogData) ==
  Min(maxScore,
      (IF Has(ogData, "og:title") THEN 15 ELSE 0)
    + (IF Has(ogData, "og:description") THEN 15 ELSE 0)
    + (IF Has(ogData, "og:image") THEN 15 ELSE 0)
    + (IF Has(ogData, "og:url") THEN 5 ELSE 0)
    + (IF Has(ogData, "og:type") THEN 5 ELSE 0)
    + (IF Has(ogData, "og:site_name") THEN 5 ELSE 0)
    + (IF Has(ogData, "fb:app_id") \/ Has(ogData, "fb:page_id") THEN 10 ELSE 0)
    + (IF Has(ogData, "twitter:card") THEN 10 ELSE 0)
    + (IF Len(ogData.images) > 1 THEN 5 ELSE 0)
    + (IF Has(ogData, "article:published_time") \/ Has(ogData, "video:duration")
         THEN 10 ELSE 0)
    + (IF Has(ogData, "og:locale") THEN 5 ELSE 0)
    + (IF \E i \in 1..Len(ogData.images) :
            Truthy(ogData.images[i].width) /\ Truthy(ogData.images[i].height)
         THEN 2 ELSE 0))

calculateOpenGraphCompleteness(ogData) ==
  Min(maxScore,
      (IF Has(ogData, "og:title") THEN 15 ELSE 0)
    + (IF Has(ogData, "og:description") THEN 15 ELSE 0)
    + (IF Has(ogData, "og:image") THEN 15 ELSE 0)
    + (IF Has(ogData, "og:url") THEN 5 ELSE 0)
    + (IF Has(ogData, "og:type") THEN 5 ELSE 0)
    + (IF Has(ogData, "og:site_name") THEN 5 ELSE 0)
    + (IF Has(ogData, "fb:app_id") \/ Has(ogData, "fb:page_id") THEN 10 ELSE 0)
    + (IF Has(ogData, "twitter:card") THEN 10 ELSE 0)
    + (IF Len(ogData.images) > 1 THEN 5 ELSE 0)
    + (IF Has(ogData, "article:published_time") \/ Has(ogData, "video:duration")
         THEN 10 ELSE 0)
    + (IF Has(ogData, "og:locale") THEN 3 ELSE 0)
    + (IF \E i \in 1..Len(ogData.images) :
            Truthy(ogData.images[i].width) /\ Truthy(ogData.images[i].height)
         THEN 2 ELSE 0))

OpenGraphCalls ==
  /\ call \in [fn : {"calculateOpenGraphCompleteness"},
               ogData : [tags : SUBSET OpenGraphTags,
                         images : SeqUpTo(ImageInputs, MaxImages)]]
  /\ ret = NoRet

CallCalculateOpenGraphCompleteness ==
  /\ call.fn = "calculateOpenGraphCompleteness"
  /\ ~ret.done
  /\ ret' = Returned(calculateOpenGraphCompleteness(call.ogData))
  /\ UNCHANGED <<call, notCallVars>>

(***************************************************************************)
(* calculateReadability(text)                                              *)
(***************************************************************************)
\* the characters \s matches, among those of the inputs
Whitespace == {" ", "\t", "\r", "\n"}
\* [.!?]
SentenceEnd == {".", "!", "?"}
\* [aeiouy]
Vowels == {"a", "e", "i", "o", "u", "y"}

\* the positions of s where a maximal run of characters of class starts
RunStarts(s, class) ==
  {i \in 1..Len(s) : s[i] \in class /\ (i = 1 \/ s[i - 1] \notin class)}

\* the positions of s where a maximal run of characters outside class starts
GapStarts(s, class) ==
  {i \in 1..Len(s) : s[i] \notin class /\ (i = 1 \/ s[i - 1] \in class)}

\* the run outside class that starts at i holds a character that is not
\* white space: s.trim().length > 0
NotBlankFrom(s, class, i) ==
  \E j \in i..Len(s) :
     /\ s[j] \notin Whitespace
     /\ \A k \in i..j : s[k] \notin class

\* text.split(/\s+/).filter(w => w.length > 0).length
WordsOf(text) == Cardinality(GapStarts(text, Whitespace))

\* text.split(/[.!?]+/).filter(s => s.trim().length > 0).length
SentencesOf(text) ==
  Cardinality({i \in GapStarts(text, SentenceEnd) : NotBlankFrom(text, SentenceEnd, i)})

\* (text.toLowerCase().match(/[aeiouy]+/g) || []).length
SyllablesOf(text) == Cardinality(RunStarts(toLowerCase(text), Vowels))

\* 206.835 - 1.015 * (w / s) - 84.6 * (y / w), as the fraction
\* FleschNum / FleschDen of integers
FleschNum(w, s, y) == 206835 * s * w - 1015 * w * w - 84600 * y * s
FleschDen(w, s) == 1000 * s * w

\* the clamp to 0..100 followed by Math.round
Readability(w, s, y) ==
  IF w = 0 \/ s = 0 THEN 50
  ELSE IF FleschNum(w, s, y) > 100 * FleschDen(w, s) THEN 100
  ELSE IF FleschNum(w, s, y) < 0 THEN 0
  ELSE Round(FleschNum(w, s, y), FleschDen(w, s))

\* a variant without the clamp at 0
calculateReadability_NoFloor(text) ==
  LET w == WordsOf(text)
      s == SentencesOf(text)
      y == SyllablesOf(text)
  IN  IF w = 0 \/ s = 0 THEN 50
      ELSE IF FleschNum(w, s, y) > 100 * FleschDen(w, s) THEN 100
      ELSE IF FleschNum(w, s, y) < 0
        THEN 0 - Round(0 - FleschNum(w, s, y), FleschDen(w, s))
      ELSE Round(FleschNum(w, s, y), FleschDen(w, s))

calculateReadability(text) ==
  Readability(WordsOf(text), SentencesOf(text), SyllablesOf(text))

MaxChars == 5

ReadabilityChars == {"a", "E", "b", " ", "."}

ReadabilityCalls ==
  /\ call \in [fn : {"calculateReadability"},
               text : SeqUpTo(ReadabilityChars, MaxChars)]
  /\ ret = NoRet

CallCalculateReadability ==
  /\ call.fn = "calculateReadability"
  /\ ~ret.done
  /\ ret' = Returned(calculateReadability(call.text))
  /\ UNCHANGED <<call, notCallVars>>

(***************************************************************************)
(* evaluateContentUniqueness(text, title, description)                     *)
(***************************************************************************)
\* text.split(/\s+/).length: one more than the number of white-space runs
SplitLength(text) == Cardinality(RunStarts(text, Whitespace)) + 1

\* the score before the clamp; the average wordCount / sentenceCount is
\* compared as a fraction, and is 0 without a sentence
UniquenessScore(wordCount, sentenceCount, title, description) ==
  50
    + (IF wordCount >= 300 /\ wordCount <= 2000 THEN 20
       ELSE IF wordCount > 2000 THEN 15
       ELSE IF wordCount < 300 THEN 0 - 20
       ELSE 0)
    + (IF title # << >> /\ description # << >> THEN 15 ELSE 0)
    + (IF Len(title) >= 30 /\ Len(title) <= 60 THEN 10 ELSE 0)
    + (IF Len(description) >= 120 /\ Len(description) <= 160 THEN 10 ELSE 0)
    + (IF /\ sentenceCount > 0
          /\ wordCount >= 15 * sentenceCount
          /\ wordCount <= 25 * sentenceCount
         THEN 5 ELSE 0)

\* avgWordsPerSentence.toFixed(1)
ToFixed1(num, den) ==
  IF den = 0 THEN "0.0"
  ELSE ToString(Round(10 * num, den) \div 10) \o "." \o ToString(Round(10 * num, den) % 10)

\* a variant without Math.min(100, ...)
evaluateContentUniqueness_NoCap(text, title, description) ==
  LET wordCount == SplitLength(text)
      sentenceCount == SentencesOf(text)
  IN  [score |-> Max(0, UniquenessScore(wordCount, sentenceCount, title, description)),
       wordCount |-> wordCount,
       sentenceCount |-> sentenceCount,
       avgWordsPerSentence |-> ToFixed1(wordCount, sentenceCount)]

evaluateContentUniqueness(text, title, description) ==
  LET wordCount == SplitLength(text)
      sentenceCount == SentencesOf(text)
  IN  [score |-> Min(100, Max(0, UniquenessScore(wordCount, sentenceCount,
                                                 title, description))),
       wordCount |-> wordCount,
       sentenceCount |-> sentenceCount,
       avgWordsPerSentence |-> ToFixed1(wordCount, sentenceCount)]

MaxTextWords == 2001

\* n times the character c
Repeat(c, n) == [i \in 1..n |-> c]

\* The body text as scrapeSite passes it, white space collapsed and trimmed:
\* n words "a" separated by one space, every k-th word followed by a full
\* stop (none for k = 0).
WordsText(n, k) ==
  IF n = 0 THEN << >>
  ELSE IF k = 0 THEN [i \in 1..(2 * n - 1) |-> IF i % 2 = 1 THEN "a" ELSE " "]
  ELSE [i \in 1..(2 * n + (n \div k) - 1) |->
          LET off == (i - 1) % (2 * k + 1)
          IN  IF off = 2 * k - 1 THEN "."
              ELSE IF off = 2 * k THEN " "
              ELSE IF off % 2 = 0 THEN "a" ELSE " "]

WordCountInputs == {0, 1, 299, 300, 2000, MaxTextWords}
SentenceLengthInputs == {0, 14, 15, 25, 26}
TitleLengthInputs == {0, 29, 30, 60, 61}
DescriptionLengthInputs == {0, 119, 120, 160, 161}

UniquenessCalls ==
  /\ call \in [fn : {"evaluateContentUniqueness"},
               text : {WordsText(n, k) : n \in WordCountInputs, k \in SentenceLengthInputs},
               title : {Repeat("t", n) : n \in TitleLengthInputs},
               description : {Repeat("d", n) : n \in DescriptionLengthInputs}]
  /\ ret = NoRet

CallEvaluateContentUniqueness ==
  /\ call.fn = "evaluateContentUniqueness"
  /\ ~ret.done
  /\ ret' = Returned(evaluateContentUniqueness(call.text, call.title, call.description))
  /\ UNCHANGED <<call, notCallVars>>

(***************************************************************************)
(* The URL-valued fields of a report: what each extractor stores for a     *)
(* value found in the markup, in robots.txt or in a sitemap.  Some(v) is   *)
(* the stored string, Null an element that is left out of the report.      *)
(***************************************************************************)
\* "./en"
A_dotEn     == <<".","/","e","n">>
\* "//cdn.test/i.png"
A_cdn       == <<"/","/","c","d","n",".","t","e","s","t","/","i",".","p","n","g">>

\* analyzeRobotsTxt: sitemaps.push(sitemapUrl)
RobotsSitemapValue(value, base) == Some(value)

\* analyzeSitemapContent: loc: $(el).find('loc').text()
SitemapEntryLoc(value, base) == Some(value)

\* scrapeSite: canonical: $('link[rel="canonical"]').attr('href')
Canonical(value, base) == Some(value)

\* analyzeOpenGraph: url: openGraph['og:url']
OpenGraphUrl(value, base) == Some(value)

\* analyzeOpenGraph: the map over openGraph.images
OpenGraphImageUrl(value, base) ==
  IF ~startsWith(value, H_http) /\ Resolve(value, base) # Null
    THEN Resolve(value, base)
    ELSE Some(value)

\* analyzeHreflang: the href pushed for a link element
HreflangHref(value, base) == Some(AbsoluteHref(value, base))

\* extractDetailedLinks: url of the linkData pushed for an anchor
IsInternal(href, base) ==
  \/ startsWith(href, Slash)
  \/ (CanParse(base) /\ includes(href, HostOf(base)))
  \/ (~CanParse(base))
  \/ startsWith(href, <<".", "/">>)
  \/ startsWith(href, <<".", ".", "/">>)

LinkUrl(href, base) ==
  IF href[1] = "#" THEN Null
  ELSE IF ~IsInternal(href, base) /\ ~startsWith(href, H_http) THEN Null
  ELSE IF ~startsWith(href, H_http) /\ Resolve(href, base) # Null
    THEN Resolve(href, base)
  ELSE Some(href)

\* scrapeSite: src of the entry pushed for an img element
ImageSrc(src, base) ==
  IF ~startsWith(src, H_http) /\ ~startsWith(src, SlashSlash)
    THEN IF Resolve(src, base) # Null THEN Resolve(src, base) ELSE Some(src)
  ELSE IF startsWith(src, SlashSlash) THEN Some(<<"h","t","t","p","s",":">> \o src)
  ELSE Some(src)

\* values of href, src and content attributes, of Sitemap lines and of <loc>
\* elements
UrlValueInputs == {A_en, A_rootFr, A_protoRel, A_cdn, A_httpdocs, A_relDe, A_dotEn}

UrlFields ==
  {"robotsTxt.sitemaps", "sitemap.urls.loc", "canonical", "openGraph.basic.url",
   "openGraph.images.url", "hreflang.hreflangs.href", "links.url", "images.src"}

UrlFieldCalls ==
  /\ call \in [fn : UrlFields, value : UrlValueInputs, baseUrl : BaseUrls]
  /\ ret = NoRet

StoreRobotsSitemap ==
  /\ call.fn = "robotsTxt.sitemaps"
  /\ ~ret.done
  /\ ret' = Returned(RobotsSitemapValue(call.value, call.baseUrl))
  /\ UNCHANGED <<call, notCallVars>>

StoreSitemapEntryLoc ==
  /\ call.fn = "sitemap.urls.loc"
  /\ ~ret.done
  /\ ret' = Returned(SitemapEntryLoc(call.value, call.baseUrl))
  /\ UNCHANGED <<call, notCallVars>>

StoreCanonical ==
  /\ call.fn = "canonical"
  /\ ~ret.done
  /\ ret' = Returned(Canonical(call.value, call.baseUrl))
  /\ UNCHANGED <<call, notCallVars>>

StoreOpenGraphUrl ==
  /\ call.fn = "openGraph.basic.url"
  /\ ~ret.done
  /\ ret' = Returned(OpenGraphUrl(call.value, call.baseUrl))
  /\ UNCHANGED <<call, notCallVars>>

StoreOpenGraphImageUrl ==
  /\ call.fn = "openGraph.images.url"
  /\ ~ret.done
  /\ ret' = Returned(OpenGraphImageUrl(call.value, call.baseUrl))
  /\ UNCHANGED <<call, notCallVars>>

StoreHreflangHref ==
  /\ call.fn = "hreflang.hreflangs.href"
  /\ ~ret.done
  /\ ret' = Returned(HreflangHref(call.value, call.baseUrl))
  /\ UNCHANGED <<call, notCallVars>>

StoreLinkUrl ==
  /\ call.fn = "links.url"
  /\ ~ret.done
  /\ ret' = Returned(LinkUrl(call.value, call.baseUrl))
  /\ UNCHANGED <<call, notCallVars>>

StoreImageSrc ==
  /\ call.fn = "images.src"
  /\ ~ret.done
  /\ ret' = Returned(ImageSrc(call.value, call.baseUrl))
  /\ UNCHANGED <<call, notCallVars>>

(***************************************************************************)
(* One network operation and its abort timer: fetchContent(url, options),  *)
(* the fetch of analyzeSitemapContent and the archive lookup of            *)
(* analyzeDomain.  Each arms setTimeout(() => controller.abort(), ms),     *)
(* awaits fetch, clears the timer, and then reads the body.                *)
(***************************************************************************)
MaxChunks == 3

\* the operations and the options their callers pass
NetworkOps ==
  [fn : {"fetchContent"}, method : {"GET", "HEAD"}, timeout : {5000, 8000}]
    \cup {[fn |-> "analyzeSitemapContent", method |-> "GET", timeout |-> 5000],
          [fn |-> "analyzeDomain", method |-> "GET", timeout |-> 3000]}

NoOutcome == [kind |-> "pending"]
\* fetch or the body read rejected with a network error
NetworkFailure == [kind |-> "error"]
\* the abort timer fired and fetch rejected with an AbortError
TimeoutFailure == [kind |-> "timeout"]
\* the operation has its response; its body was read when the code reads it
Responded(code, bodyRead) == [kind |-> "response", status |-> code, bodyRead |-> bodyRead]

\* the code reads the body of the response: fetchContent always calls
\* response.text(); analyzeSitemapContent returns before text() and
\* analyzeDomain skips json() when !response.ok
ReadsBody(op, code) == op.fn = "fetchContent" \/ code \in 200..299

\* the catch block clears the timer: only analyzeDomain's does
CatchClearsTimer(op) == op.fn = "analyzeDomain"

NetworkStart ==
  /\ netOp \in NetworkOps
  /\ netPc = "fetch"
  /\ timer = "armed"
  /\ chunks = 0
  /\ netOutcome = NoOutcome

IdleNetwork ==
  /\ netOp = [fn |-> "none"]
  /\ netPc = "idle"
  /\ timer = "none"
  /\ chunks = 0
  /\ netOutcome = NoOutcome

\* the timer fires: controller.abort() rejects a pending fetch
TimerFires ==
  /\ timer = "armed"
  /\ timer' = "fired"
  /\ IF netPc = "fetch"
       THEN netPc' = "done" /\ netOutcome' = TimeoutFailure
       ELSE UNCHANGED <<netPc, netOutcome>>
  /\ UNCHANGED <<netOp, chunks, notNetworkVars>>

\* fetch rejects before any response: DNS failure, refused connection
FetchRejects ==
  /\ netPc = "fetch"
  /\ timer' = IF CatchClearsTimer(netOp) THEN "cleared" ELSE timer
  /\ netPc' = "done"
  /\ netOutcome' = NetworkFailure
  /\ UNCHANGED <<netOp, chunks, notNetworkVars>>

\* the response headers arrive: fetch resolves and clearTimeout(timeoutId)
\* runs; a HEAD response has no body, so text() resolves at once
HeadersArrive ==
  /\ netPc = "fetch"
  /\ timer' = "cleared"
  /\ \E code \in OkStatuses \cup NotOkStatuses :
       IF ReadsBody(netOp, code) /\ netOp.method # "HEAD"
         THEN /\ netPc' = "body"
              /\ netOutcome' = Responded(code, FALSE)
         ELSE /\ netPc' = "done"
              /\ netOutcome' = Responded(code, ReadsBody(netOp, code))
  /\ UNCHANGED <<netOp, chunks, notNetworkVars>>

\* the server sends a part of the body
BodyChunk ==
  /\ netPc = "body"
  /\ chunks < MaxChunks
  /\ chunks' = chunks + 1
  /\ UNCHANGED <<netOp, netPc, timer, netOutcome, notNetworkVars>>

\* the server sends the end of the body: text() or json() resolves
BodyComplete ==
  /\ netPc = "body"
  /\ netPc' = "done"
  /\ netOutcome' = Responded(netOutcome.status, TRUE)
  /\ UNCHANGED <<netOp, timer, chunks, notNetworkVars>>

\* the connection breaks while the body is read: text() or json() rejects
BodyRejects ==
  /\ netPc = "body"
  /\ netPc' = "done"
  /\ netOutcome' = NetworkFailure
  /\ UNCHANGED <<netOp, timer, chunks, notNetworkVars>>

NextNetwork ==
  \/ TimerFires
  \/ FetchRejects
  \/ HeadersArrive
  \/ BodyChunk
  \/ BodyComplete
  \/ BodyRejects

(***************************************************************************)
(* Two audit requests in flight at once.  Each await of scrapeSite is a    *)
(* point where the other request's handler can run.  LOCAL_CHROME_PATH is  *)
(* created once when the module loads and every audit launches its browser *)
(* with userDataDir: LOCAL_CHROME_PATH and removes that directory in its   *)
(* finally block.                                                          *)
(***************************************************************************)
Requests == {1, 2}

\* error is the message of the last error caught on the way.
\* a request whose url was accepted and whose scrapeSite call has begun
AuditBegun ==
  [pc |-> "import", browser |-> "none", userDataDir |-> "none", error |-> "", status |-> 0]
NoAudit ==
  [pc |-> "idle", browser |-> "none", userDataDir |-> "none", error |-> "", status |-> 0]

ConcurrentStart ==
  /\ serverBuild \in Variants
  /\ chromePath = TRUE
  /\ audits = [i \in Requests |-> AuditBegun]

IdleConcurrent ==
  /\ serverBuild = "none"
  /\ chromePath = TRUE
  /\ audits = [i \in Requests |-> NoAudit]

\* request i moves to the state a
Becomes(i, a) == audits' = [audits EXCEPT ![i] = a]

\* the browser of request i is running on LOCAL_CHROME_PATH
RunsOnChromePath(a) == a.browser \in {"connected", "disconnected"} /\ a.userDataDir = "shared"

\* await import('lighthouse') resolves
AuditImport(i) ==
  /\ audits[i].pc = "import"
  /\ Becomes(i, [audits[i] EXCEPT !.pc = "launch"])
  /\ UNCHANGED <<serverBuild, chromePath, notConcurrentVars>>

\* the import rejects: server.js answers 500 from the handler's catch,
\* part_000 catches it as lhError and goes on to the rendering step
AuditImportThrows(i) ==
  /\ audits[i].pc = "import"
  /\ Becomes(i, IF serverBuild = "server.js"
                  THEN [audits[i] EXCEPT !.pc = "responded", !.error = "import",
                                         !.status = 500]
                  ELSE [audits[i] EXCEPT !.pc = "render", !.error = "import"])
  /\ UNCHANGED <<serverBuild, chromePath, notConcurrentVars>>

\* server.js: chromeLauncher is not defined; the handler's catch answers 500
AuditLauncherUnbound(i) ==
  /\ audits[i].pc = "launch"
  /\ serverBuild = "server.js"
  /\ Becomes(i, [audits[i] EXCEPT !.pc = "responded",
                                  !.error = "chromeLauncher is not defined",
                                  !.status = 500])
  /\ UNCHANGED <<serverBuild, chromePath, notConcurrentVars>>

\* part_000: puppeteer.launch({ userDataDir: LOCAL_CHROME_PATH }) resolves;
\* Chrome creates the directory when it is missing
AuditLaunch(i) ==
  /\ audits[i].pc = "launch"
  /\ serverBuild = "part_000"
  /\ Becomes(i, [audits[i] EXCEPT !.pc = "lighthouse", !.browser = "connected",
                                  !.userDataDir = "shared"])
  /\ chromePath' = TRUE
  /\ UNCHANGED <<serverBuild, notConcurrentVars>>

\* part_000: puppeteer.launch rejects, caught as lhError
AuditLaunchThrows(i) ==
  /\ audits[i].pc = "launch"
  /\ serverBuild = "part_000"
  /\ Becomes(i, [audits[i] EXCEPT !.pc = "render", !.error = "launch"])
  /\ UNCHANGED <<serverBuild, chromePath, notConcurrentVars>>

\* lighthouse(targetUrl, options) resolves or rejects (caught as lhError);
\* the browser may have gone away meanwhile
AuditLighthouse(i) ==
  /\ audits[i].pc = "lighthouse"
  /\ \E b \in {"connected", "disconnected"} :
       Becomes(i, [audits[i] EXCEPT !.pc = "render", !.browser = b])
  /\ UNCHANGED <<serverBuild, chromePath, notConcurrentVars>>

\* if (!browser || !browser.isConnected()) browser = await puppeteer.launch(...)
\* without userDataDir: the new browser has a directory of its own
AuditRelaunch(i) ==
  /\ audits[i].pc = "render"
  /\ audits[i].browser # "connected"
  /\ Becomes(i, [audits[i] EXCEPT !.browser = "connected", !.userDataDir = "own"])
  /\ UNCHANGED <<serverBuild, chromePath, notConcurrentVars>>

\* the second launch rejects, caught as pupError
AuditRelaunchThrows(i) ==
  /\ audits[i].pc = "render"
  /\ audits[i].browser # "connected"
  /\ Becomes(i, [audits[i] EXCEPT !.pc = "cleanup"])
  /\ UNCHANGED <<serverBuild, chromePath, notConcurrentVars>>

\* newPage, goto and content resolve or reject (caught as pupError)
AuditRender(i) ==
  /\ audits[i].pc = "render"
  /\ audits[i].browser = "connected"
  /\ \E b \in {"connected", "disconnected"} :
       Becomes(i, [audits[i] EXCEPT !.pc = "cleanup", !.browser = b])
  /\ UNCHANGED <<serverBuild, chromePath, notConcurrentVars>>

\* finally: browser.close() resolves (or there is no browser), then
\* fs.rmSync(LOCAL_CHROME_PATH, { recursive: true, force: true }) runs
\* inside its own try block and may fail silently
AuditClose(i) ==
  /\ audits[i].pc = "cleanup"
  /\ Becomes(i, [audits[i] EXCEPT !.pc = "advice",
                   !.browser = IF audits[i].browser = "none" THEN "none" ELSE "closed"])
  /\ chromePath' \in {FALSE, chromePath}
  /\ UNCHANGED <<serverBuild, notConcurrentVars>>

\* finally: browser.close() rejects; rmSync is skipped and the handler's
\* catch answers 500
AuditCloseThrows(i) ==
  /\ audits[i].pc = "cleanup"
  /\ audits[i].browser # "none"
  /\ Becomes(i, [audits[i] EXCEPT !.pc = "responded", !.error = "close", !.status = 500])
  /\ UNCHANGED <<serverBuild, chromePath, notConcurrentVars>>

\* getAIAdvice returns and the report is sent
AuditRespond(i) ==
  /\ audits[i].pc = "advice"
  /\ Becomes(i, [audits[i] EXCEPT !.pc = "responded", !.status = 200])
  /\ UNCHANGED <<serverBuild, chromePath, notConcurrentVars>>

NextConcurrent ==
  \E i \in Requests :
    \/ AuditImport(i)
    \/ AuditImportThrows(i)
    \/ AuditLauncherUnbound(i)
    \/ AuditLaunch(i)
    \/ AuditLaunchThrows(i)
    \/ AuditLighthouse(i)
    \/ AuditRelaunch(i)
    \/ AuditRelaunchThrows(i)
    \/ AuditRender(i)
    \/ AuditClose(i)
    \/ AuditCloseThrows(i)
    \/ AuditRespond(i)

(***************************************************************************)
(* checkSubpagePaths(mainUrl, robotsTxtData, sitemapData), called by        *)
(* scrapeSite with the results of analyzeRobotsTxt and checkSitemap.       *)
(***************************************************************************)
\* "https://x.test/contact"
S_contact == <<"h","t","t","p","s",":","/","/","x",".","t","e","s","t","/","c","o","n","t","a","c","t">>

\* `${urlObj.protocol}//${urlObj.hostname}` of the audited URLs
baseUrl == S_home

\* A sitemap of the audited site and what checkSitemap made of it:
\*   "analyzed"      fetched and parsed by analyzeSitemapContent
\*   "failed"        accessible, but analyzeSitemapContent gave analyzed: false
\*   "inaccessible"  both probes rejected
\*   "linked"        taken from a link element and never fetched
Served(outcome, doc) == [outcome |-> outcome, doc |-> doc]

\* /about and /blog/a
ShortUrlset == UrlsetDocument(<<S_about, S_blog>>, TRUE)
\* /contact is the last of n entries
ContactLast(n) == UrlsetDocument(Filled(n, S_contact), TRUE)

ServedInputs ==
  {<< >>,
   <<Served("analyzed", ShortUrlset)>>,
   <<Served("analyzed", ContactLast(50))>>,
   <<Served("analyzed", ContactLast(MaxEntries - 1))>>,
   <<Served("analyzed", IndexDocument(<<U_sitemap>>, TRUE))>>,
   <<Served("failed", ShortUrlset)>>,
   <<Served("linked", ShortUrlset)>>,
   <<Served("inaccessible", ShortUrlset), Served("analyzed", ShortUrlset)>>}

\* the entry of foundSitemaps checkSitemap pushes for a served sitemap
FoundEntry(s) ==
  IF s.outcome = "analyzed"
    THEN AnalyzedSitemap(U_sitemap, "robots.txt", SitemapParsed(s.doc, baseUrl))
  ELSE IF s.outcome = "failed"
    THEN AnalyzedSitemap(U_sitemap, "robots.txt", SitemapNotAnalyzed("HTTP"))
  ELSE IF s.outcome = "inaccessible" THEN InaccessibleSitemap(U_sitemap)
  ELSE LinkedSitemap(U_sitemap)

\* the record checkSitemap returns for the served sitemaps
SitemapDataOf(list) == DiscoveryResult([i \in 1..Len(list) |-> FoundEntry(list[i])])

\* each list of served sitemaps with the record checkSitemap returns for it
SitemapDataInputs == {<<list, SitemapDataOf(list)>> : list \in ServedInputs}

\* sitemap.analysis.urls.some(url => url.loc && (url.loc === fullUrl ||
\* url.loc.startsWith(fullUrl)))
SomeUrlMatches(urls, fullUrl) ==
  \E i \in 1..Len(urls) :
    urls[i].loc # << >> /\ (urls[i].loc = fullUrl \/ startsWith(urls[i].loc, fullUrl))

\* the loop over sitemapData.sitemaps, left at the first sitemap with a match
inSitemap(sitemapRecord, fullUrl) ==
  /\ sitemapRecord.analyzed
  /\ \E i \in 1..Len(sitemapRecord.sitemaps) :
       /\ sitemapRecord.sitemaps[i].analyzed = Some(TRUE)
       /\ SomeUrlMatches(sitemapRecord.sitemaps[i].analysis.urls, fullUrl)

\* one element of subpageResults
SubpageResult(path, robotsTxtData, sitemapRecord) ==
  LET fullUrl == baseUrl \o path
      pathAllowed == checkPathRobots(path, robotsTxtData.disallowRules,
                                     robotsTxtData.allowRules)
      listed == inSitemap(sitemapRecord, fullUrl)
  IN  [path |-> path, url |-> fullUrl, robotsAllowed |-> pathAllowed,
       inSitemap |-> listed,
       recommendedAction |-> getSubpageRecommendation(path, pathAllowed, listed)]

\* the filter behind summary.properlyConfigured
IsProperlyConfigured(p) ==
  IF IncludesAny(p.path, {C_admin, C_wpAdmin, C_api})
    THEN ~p.robotsAllowed /\ ~p.inSitemap
  ELSE IF IncludesAny(p.path, {W_category, C_blog, C_products})
    THEN p.robotsAllowed /\ p.inSitemap
  ELSE p.robotsAllowed

CountWhere(results, Test(_)) == Cardinality({i \in 1..Len(results) : Test(results[i])})
IsRobotsAllowed(p) == p.robotsAllowed
IsInSitemap(p) == p.inSitemap

\* the record of the catch block: new URL(mainUrl) threw
SubpagesError ==
  [checkedPaths |-> << >>,
   summary |-> [totalChecked |-> 0, robotsAllowed |-> 0, inSitemap |-> 0,
                properlyConfigured |-> 0]]

checkSubpagePaths(mainUrl, robotsTxtData, sitemapRecord) ==
  IF ~mainUrl.valid THEN SubpagesError
  ELSE LET subpageResults ==
             [i \in 1..Len(commonPaths) |->
                SubpageResult(commonPaths[i], robotsTxtData, sitemapRecord)]
       IN  [checkedPaths |-> subpageResults,
            summary |->
              [totalChecked |-> Len(subpageResults),
               robotsAllowed |-> CountWhere(subpageResults, IsRobotsAllowed),
               inSitemap |-> CountWhere(subpageResults, IsInSitemap),
               properlyConfigured |-> CountWhere(subpageResults, IsProperlyConfigured)]]

SubpagesStart ==
  /\ subpagePc = "wait"
  /\ served = << >>
  /\ sitemapArg = NoResult
  /\ subpageResult = NoResult

IdleSubpages ==
  /\ subpagePc = "idle"
  /\ served = << >>
  /\ sitemapArg = NoResult
  /\ subpageResult = NoResult

\* scrapeSite: analyzeRobotsTxt has returned, checkSitemap returns the
\* record of the sitemaps it found, and checkSubpagePaths runs on both
CheckSubpagePaths ==
  /\ subpagePc = "wait"
  /\ rpc = "done"
  /\ \E found \in SitemapDataInputs :
       /\ served' = found[1]
       /\ sitemapArg' = IF url.valid THEN found[2] ELSE DiscoveryError
       /\ subpageResult' = checkSubpagePaths(url, robotsTxt, sitemapArg')
  /\ subpagePc' = "done"
  /\ UNCHANGED notSubpageVars

NextSubpages ==
  \/ RobotsFetchThrows
  \/ RobotsFetchNotOk
  \/ RobotsFetchOk
  \/ ParseLine
  \/ RobotsReturn
  \/ CheckSubpagePaths

(***************************************************************************)
(* extractDetailedLinks($, targetUrl)                                      *)
(***************************************************************************)
\* "#top"
A_fragment   == <<"#","t","o","p">>
\* "javascript:void(0)"
A_javascript == <<"j","a","v","a","s","c","r","i","p","t",":","v","o","i","d","(","0",")">>
\* "mailto:a@x.test"
A_mailto     == <<"m","a","i","l","t","o",":","a","@","x",".","t","e","s","t">>
\* "https://cdn.test/i.png"
A_httpsCdn   == <<"h","t","t","p","s",":","/","/","c","d","n",".","t","e","s","t","/","i",".","p","n","g">>
\* "https://notx.test/en": another host whose name ends like the audited one
A_notx       == <<"h","t","t","p","s",":","/","/","n","o","t","x",".","t","e","s","t","/","e","n">>

KW_javascript == <<"j","a","v","a","s","c","r","i","p","t",":">>
KW_mailto     == <<"m","a","i","l","t","o",":">>

\* the href of each a[href] element, in document order
HrefInputs == {<< >>, A_fragment, A_javascript, A_mailto, A_rootFr, A_dotEn, A_relDe,
               A_en, A_httpsCdn, A_notx}

\* if (!href || href.startsWith('#') || href.startsWith('javascript:') ||
\* href.startsWith('mailto:')) return
IsSkippedHref(href) ==
  \/ href = << >>
  \/ startsWith(href, Hash)
  \/ startsWith(href, KW_javascript)
  \/ startsWith(href, KW_mailto)

\* the linkData built for an anchor that is not skipped
linkData(href, base) ==
  [url |-> IF ~startsWith(href, H_http) /\ Resolve(href, base) # Null
             THEN Resolve(href, base)[1] ELSE href,
   isExternal |-> ~IsInternal(href, base) /\ startsWith(href, H_http)]

\* if (isInternal) internalLinks.push(linkData)
GoesToInternal(href, base) == ~IsSkippedHref(href) /\ IsInternal(href, base)

\* else if (linkData.isExternal) externalLinks.push(linkData)
GoesToExternal(href, base) ==
  ~IsSkippedHref(href) /\ ~IsInternal(href, base) /\ linkData(href, base).isExternal

\* the linkData of each href, in document order
LinkDataOf(hrefs, base) == [i \in 1..Len(hrefs) |-> linkData(hrefs[i], base)]

extractDetailedLinks(hrefs, base) ==
  LET ToInternal(href) == GoesToInternal(href, base)
      ToExternal(href) == GoesToExternal(href, base)
      internalLinks == LinkDataOf(SelectSeq(hrefs, ToInternal), base)
      externalLinks == LinkDataOf(SelectSeq(hrefs, ToExternal), base)
  IN  [internal |-> internalLinks,
       external |-> externalLinks,
       internalCount |-> Len(internalLinks),
       externalCount |-> Len(externalLinks)]

LinkCalls ==
  /\ call \in [fn : {"extractDetailedLinks"},
               hrefs : SeqUpTo(HrefInputs, MaxLinks),
               targetUrl : BaseUrls]
  /\ ret = NoRet

CallExtractDetailedLinks ==
  /\ call.fn = "extractDetailedLinks"
  /\ ~ret.done
  /\ ret' = Returned(extractDetailedLinks(call.hrefs, call.targetUrl))
  /\ UNCHANGED <<call, notCallVars>>

(***************************************************************************)
(* analyzeOpenGraph($, baseUrl): the og:image list                         *)
(***************************************************************************)
\* "/a.png"
I_relative == <<"/","a",".","p","n","g">>
\* "https://x.test/a.png"
I_absolute == <<"h","t","t","p","s",":","/","/","x",".","t","e","s","t","/","a",".","p","n","g">>
\* "1200"
I_width    == <<"1","2","0","0">>
\* "Logo"
I_alt      == <<"L","o","g","o">>

\* a meta element: its property and content attributes
Meta(property, content) == [property |-> property, content |-> content]

MetaInputs ==
  {Meta("og:image", I_relative), Meta("og:image", I_absolute),
   Meta("og:image:width", I_width), Meta("og:image:alt", I_alt),
   Meta("og:title", I_alt)}

\* the properties of the inputs that the selector [property^="og:image"]
\* matches: every property that begins with og:image
StartsWithOgImage(property) ==
  property \in {"og:image", "og:image:width", "og:image:height", "og:image:alt",
                "og:image:type"}

\* parseInt(s): the number written by the leading digits, or NaN
RECURSIVE LeadingValue(_, _)
LeadingValue(s, acc) ==
  IF s = << >> \/ s[1] \notin Digits THEN acc
  ELSE LeadingValue(Tail(s), acc * 10 + (CHOOSE n \in 0..9 : ToString(n) = s[1]))
parseInt(s) ==
  IF s = << >> \/ s[1] \notin Digits THEN NaNAge ELSE NumberAge(LeadingValue(s, 0))

\* $(`meta[property="${property}"]`).attr('content'): the content of the
\* first such element, Null for undefined
ContentOf(metas, property) ==
  IF \E k \in 1..Len(metas) : metas[k].property = property
    THEN Some(metas[CHOOSE k \in 1..Len(metas) :
                      /\ metas[k].property = property
                      /\ \A j \in 1..(k - 1) : metas[j].property # property].content)
    ELSE Null

\* i ? `og:image:${i}:${attribute}` : `og:image:${attribute}`
AssociatedProperty(i, attribute) ==
  IF i # 0 THEN "og:image:" \o ToString(i) \o ":" \o attribute
  ELSE "og:image:" \o attribute

\* an attribute is set when its meta element has a content that is not empty
Associated(metas, i, attribute) ==
  IF ContentOf(metas, AssociatedProperty(i, attribute)) \in {Null, Some(<< >>)}
    THEN Null
    ELSE ContentOf(metas, AssociatedProperty(i, attribute))

\* the imageData pushed for the element of 0-based index i
imageData(metas, i, image) ==
  [url    |-> image,
   width  |-> IF Associated(metas, i, "width") = Null THEN Null
              ELSE Some(parseInt(Associated(metas, i, "width")[1])),
   height |-> IF Associated(metas, i, "height") = Null THEN Null
              ELSE Some(parseInt(Associated(metas, i, "height")[1])),
   alt    |-> Associated(metas, i, "alt"),
   type   |-> Associated(metas, i, "type")]

\* the elements matched by $('meta[property^="og:image"]'), in document order
ImageElements(metas) ==
  LET IsImageElement(e) == StartsWithOgImage(e.property)
  IN  SelectSeq(metas, IsImageElement)

\* openGraph.images after the first n matched elements were visited
RECURSIVE ImagesAfter(_, _)
ImagesAfter(metas, n) ==
  IF n = 0 THEN << >>
  ELSE LET before == ImagesAfter(metas, n - 1)
           image == ImageElements(metas)[n].content
       IN  IF image # << >> /\ ~\E k \in 1..Len(before) : before[k].url = image
             THEN Append(before, imageData(metas, n - 1, image))
             ELSE before

\* openGraph.images.map(img => ...): the URLs are made absolute
AbsoluteImages(imgs, base) ==
  [k \in 1..Len(imgs) |-> [imgs[k] EXCEPT !.url = OpenGraphImageUrl(imgs[k].url, base)[1]]]

\* the images field of the record analyzeOpenGraph returns
OpenGraphImages(metas, base) ==
  AbsoluteImages(ImagesAfter(metas, Len(ImageElements(metas))), base)

OpenGraphImageCalls ==
  /\ call \in [fn : {"analyzeOpenGraph"},
               metas : SeqUpTo(MetaInputs, MaxTags),
               baseUrl : {S_home}]
  /\ ret = NoRet

CallAnalyzeOpenGraph ==
  /\ call.fn = "analyzeOpenGraph"
  /\ ~ret.done
  /\ ret' = Returned([images |-> OpenGraphImages(call.metas, call.baseUrl)])
  /\ UNCHANGED <<call, notCallVars>>

(***************************************************************************)
(* Specifications: each runs one unit of the program from its inputs.      *)
(***************************************************************************)
\* no stateful unit is running
NoProcess ==
  /\ IdleRobots /\ IdleSchema /\ IdleSitemap /\ IdleDomain /\ IdleAudit /\ IdleDiscovery
  /\ IdleNetwork
  /\ IdleConcurrent
  /\ IdleSubpages

InitRobots ==
  /\ RobotsStart /\ IdleCall /\ IdleSchema /\ IdleSitemap /\ IdleDomain /\ IdleAudit
  /\ IdleDiscovery
  /\ IdleNetwork
  /\ IdleConcurrent
  /\ IdleSubpages

SpecRobots == InitRobots /\ [][NextRobots]_vars

InitPath == PathCalls /\ NoProcess

NextPath == CallCheckPathRobots

SpecPath == InitPath /\ [][NextPath]_vars

InitGrade == GradeCalls /\ NoProcess

NextGrade == CallPerformCompetitiveAnalysis

SpecGrade == InitGrade /\ [][NextGrade]_vars

InitRecommendation == RecommendationCalls /\ NoProcess

NextRecommendation == CallGetSubpageRecommendation

SpecRecommendation == InitRecommendation /\ [][NextRecommendation]_vars

InitSchema ==
  /\ SchemaStart /\ IdleCall /\ IdleRobots /\ IdleSitemap /\ IdleDomain /\ IdleAudit
  /\ IdleDiscovery
  /\ IdleNetwork
  /\ IdleConcurrent
  /\ IdleSubpages

SpecSchema == InitSchema /\ [][NextSchema]_vars

\* one of the three network-facing components runs
InitComponents ==
  /\ IdleCall
  /\ IdleSchema
  /\ IdleAudit
  /\ IdleDiscovery
  /\ IdleNetwork
  /\ IdleConcurrent
  /\ IdleSubpages
  /\ \/ RobotsStart /\ IdleSitemap /\ IdleDomain
     \/ IdleRobots /\ SitemapStart /\ IdleDomain
     \/ IdleRobots /\ IdleSitemap /\ DomainStart

NextComponents == NextRobots \/ NextSitemap \/ NextDomain

SpecComponents == InitComponents /\ [][NextComponents]_vars

InitAudit ==
  /\ AuditStart /\ IdleCall /\ IdleRobots /\ IdleSchema /\ IdleSitemap /\ IdleDomain
  /\ IdleDiscovery
  /\ IdleNetwork
  /\ IdleConcurrent
  /\ IdleSubpages

SpecAudit == InitAudit /\ [][NextAudit]_vars

InitKeywords == KeywordCalls /\ NoProcess

NextKeywords == CallAnalyzeKeywords \/ CallAnalyzeKeywordIntent

SpecKeywords == InitKeywords /\ [][NextKeywords]_vars

InitHreflang == HreflangCalls /\ NoProcess

NextHreflang == CallAnalyzeHreflang

SpecHreflang == InitHreflang /\ [][NextHreflang]_vars

InitDiscovery ==
  /\ DiscoveryStart /\ IdleCall /\ IdleRobots /\ IdleSchema /\ IdleSitemap /\ IdleDomain
  /\ IdleAudit
  /\ IdleNetwork
  /\ IdleConcurrent
  /\ IdleSubpages

SpecDiscovery == InitDiscovery /\ [][NextDiscovery]_vars

InitOpenGraph == OpenGraphCalls /\ NoProcess

NextOpenGraph == CallCalculateOpenGraphCompleteness

SpecOpenGraph == InitOpenGraph /\ [][NextOpenGraph]_vars

InitReadability == ReadabilityCalls /\ NoProcess

NextReadability == CallCalculateReadability

SpecReadability == InitReadability /\ [][NextReadability]_vars

InitUniqueness == UniquenessCalls /\ NoProcess

NextUniqueness == CallEvaluateContentUniqueness

SpecUniqueness == InitUniqueness /\ [][NextUniqueness]_vars

InitUrlFields == UrlFieldCalls /\ NoProcess

NextUrlFields ==
  \/ StoreRobotsSitemap
  \/ StoreSitemapEntryLoc
  \/ StoreCanonical
  \/ StoreOpenGraphUrl
  \/ StoreOpenGraphImageUrl
  \/ StoreHreflangHref
  \/ StoreLinkUrl
  \/ StoreImageSrc

SpecUrlFields == InitUrlFields /\ [][NextUrlFields]_vars

InitNetwork ==
  /\ NetworkStart /\ IdleCall /\ IdleRobots /\ IdleSchema /\ IdleSitemap /\ IdleDomain
  /\ IdleAudit
  /\ IdleDiscovery
  /\ IdleConcurrent
  /\ IdleSubpages

SpecNetwork == InitNetwork /\ [][NextNetwork]_vars

\* the timer of setTimeout fires while it is armed; the remote server is
\* under no obligation to send anything
LiveNetwork == SpecNetwork /\ WF_vars(TimerFires)

InitConcurrent ==
  /\ ConcurrentStart /\ IdleCall /\ IdleRobots /\ IdleSchema /\ IdleSitemap /\ IdleDomain
  /\ IdleAudit /\ IdleDiscovery /\ IdleNetwork /\ IdleSubpages

SpecConcurrent == InitConcurrent /\ [][NextConcurrent]_vars

InitSubpages ==
  /\ RobotsStart /\ SubpagesStart /\ IdleCall /\ IdleSchema /\ IdleSitemap /\ IdleDomain
  /\ IdleAudit /\ IdleDiscovery /\ IdleNetwork /\ IdleConcurrent

SpecSubpages == InitSubpages /\ [][NextSubpages]_vars

InitLinks == LinkCalls /\ NoProcess

NextLinks == CallExtractDetailedLinks

SpecLinks == InitLinks /\ [][NextLinks]_vars

InitOpenGraphImages == OpenGraphImageCalls /\ NoProcess

NextOpenGraphImages == CallAnalyzeOpenGraph

SpecOpenGraphImages == InitOpenGraphImages /\ [][NextOpenGraphImages]_vars

(***************************************************************************)
(* Properties of checkPathRobots (SpecPath).                               *)
(***************************************************************************)
\* indices of the disallow rules of the call that are a prefix of its path
MatchingDisallow ==
  {i \in 1..Len(call.disallowRules) : startsWith(call.path, call.disallowRules[i])}

\* some allow rule of the call is a prefix of its path and longer than d
OverriddenByAllow(d) ==
  \E j \in 1..Len(call.allowRules) :
     /\ startsWith(call.path, call.allowRules[j])
     /\ Len(call.allowRules[j]) > Len(d)

\* C1: checkPathRobots returns true when no disallow rule is a prefix of the
\* path; when exactly one disallow rule d is a prefix of the path it returns
\* true if and only if some allow rule is a prefix of the path and strictly
\* longer than d; "/admin/x" with disallow ["/admin"] and no allow is false,
\* "/admin/public" with disallow ["/admin"] and allow ["/admin/public"] is
\* true.
C1_SingleDisallow ==
  (call.fn = "checkPathRobots" /\ ret.done) =>
     /\ MatchingDisallow = {} => ret.value = TRUE
     /\ Cardinality(MatchingDisallow) = 1 =>
          LET d == call.disallowRules[CHOOSE i \in MatchingDisallow : TRUE]
          IN  ret.value = OverriddenByAllow(d)
     /\ (call.path = P_adminX /\ call.disallowRules = <<P_admin>>
            /\ call.allowRules = << >>) => ret.value = FALSE
     /\ (call.path = P_adminPublic /\ call.disallowRules = <<P_admin>>
            /\ call.allowRules = <<P_adminPublic>>) => ret.value = TRUE

\* a call with exactly one matching disallow rule, overridden by a longer allow
C1_Witness ==
  /\ call.fn = "checkPathRobots" /\ ret.done
  /\ call.path = P_adminPublic
  /\ call.disallowRules = <<P_admin>>
  /\ call.allowRules = <<P_adminPublic>>
  /\ ret.value = TRUE

\* C2: checkPathRobots returns true if and only if every disallow rule that
\* is a prefix of the path is overridden by some allow rule that is also a
\* prefix of the path and strictly longer than that disallow rule (so the
\* result does not depend on the order of the rules).
C2_EveryDisallowOverridden ==
  (call.fn = "checkPathRobots" /\ ret.done) =>
     ret.value = (\A i \in MatchingDisallow : OverriddenByAllow(call.disallowRules[i]))

(***************************************************************************)
(* Properties of analyzeRobotsTxt (SpecRobots).                            *)
(***************************************************************************)
\* the lines of the body: trimmed, without the empty ones and the comments
FileLines == lines

\* line i of the file is a User-agent line naming the wildcard
IsWildcardAgentLine(i) ==
  /\ startsWith(toLowerCase(FileLines[i]), KW_userAgent)
  /\ trim(substring(FileLines[i], 11)) = Star

IsAgentLine(i) == startsWith(toLowerCase(FileLines[i]), KW_userAgent)

\* line i is read in wildcard scope: the most recent User-agent line before
\* it names the wildcard
InScopeAt(i) ==
  \E j \in 1..(i - 1) :
     /\ IsWildcardAgentLine(j)
     /\ \A k \in (j + 1)..(i - 1) : ~IsAgentLine(k)

IsDisallowAt(i) == startsWith(toLowerCase(FileLines[i]), KW_disallow)
IsAllowAt(i)    == startsWith(toLowerCase(FileLines[i]), KW_allow)
DisallowValueAt(i) == trim(substring(FileLines[i], 9))

\* the parser is reading a line (a ParseLine step is being taken)
ReadsLine == rpc = "loop" /\ idx' = idx + 1

\* C3: a Disallow or Allow line changes the result only when the most recent
\* preceding User-agent line has the value `*`: lines read while the cursor
\* is none or a named agent leave disallowRules, allowRules, blocksAll and
\* allowsAll unchanged; for every robots.txt with no `User-agent: *` line,
\* disallowRules and allowRules are empty and allowsIndexing is true.
C3_OnlyWildcardScope ==
  /\ [][(ReadsLine /\ currentUserAgent # Some(Star)) =>
           UNCHANGED <<disallowRules, allowRules, blocksAll, allowsAll>>]_vars
  /\ []((rpc = "done" /\ robotsTxt.exists
            /\ \A i \in 1..Len(FileLines) : ~IsWildcardAgentLine(i)) =>
           /\ robotsTxt.disallowRules = << >>
           /\ robotsTxt.allowRules = << >>
           /\ robotsTxt.allowsIndexing)

\* a file whose Disallow and Allow lines stand under a named agent only
C3_Witness ==
  /\ rpc = "done" /\ robotsTxt.exists
  /\ \A i \in 1..Len(FileLines) : ~IsWildcardAgentLine(i)
  /\ \E i \in 1..Len(FileLines) : IsAgentLine(i)
  /\ \E i \in 1..Len(FileLines) : IsDisallowAt(i)
  /\ \E i \in 1..Len(FileLines) : IsAllowAt(i)

\* the in-scope, non-empty, non-"/" Disallow values among the first n lines,
\* in file order
RECURSIVE InScopeDisallowValues(_)
InScopeDisallowValues(n) ==
  IF n = 0 THEN << >>
  ELSE IF /\ ~IsAgentLine(n) /\ IsDisallowAt(n) /\ InScopeAt(n)
          /\ DisallowValueAt(n) # << >> /\ DisallowValueAt(n) # P_root
         THEN Append(InScopeDisallowValues(n - 1), DisallowValueAt(n))
         ELSE InScopeDisallowValues(n - 1)

\* some in-scope Disallow among the first n lines has the value "" or "/"
InScopeDisallowAll(n) ==
  \E i \in 1..n :
     /\ ~IsAgentLine(i) /\ IsDisallowAt(i) /\ InScopeAt(i)
     /\ (DisallowValueAt(i) = << >> \/ DisallowValueAt(i) = P_root)

ScenarioBody == join(<<L_uaStar, L_disAdmin, L_sitemap>>, "\n")

\* C4: an in-scope Disallow with value "" or "/" sets blocksAll and adds
\* nothing to disallowRules; any other value is appended to disallowRules and
\* leaves blocksAll unchanged, so disallowRules is the file-order sequence of
\* the in-scope non-empty, non-"/" Disallow values; the file `User-agent: *`,
\* `Disallow: /admin`, `Sitemap: https://x.test/sitemap.xml` yields
\* exists=true, blocksAll=false, disallowRules=["/admin"] and that sitemap.
C4_DisallowEffect ==
  /\ rpc \in {"loop", "done"} =>
       /\ disallowRules = InScopeDisallowValues(idx)
       /\ blocksAll = InScopeDisallowAll(idx)
  /\ (rpc = "done" /\ robotsTxt.exists) =>
       /\ idx = Len(FileLines)
       /\ robotsTxt.disallowRules = InScopeDisallowValues(Len(FileLines))
       /\ robotsTxt.blocksAll = InScopeDisallowAll(Len(FileLines))
  /\ (rpc = "done" /\ robotsContent = ScenarioBody) =>
       /\ robotsTxt.exists
       /\ robotsTxt.blocksAll = FALSE
       /\ robotsTxt.disallowRules = <<P_admin>>
       /\ robotsTxt.sitemaps = <<U_sitemap>>

\* a parsed file with two different in-scope prefix rules
C4_Witness ==
  /\ rpc = "done" /\ robotsTxt.exists
  /\ Len(robotsTxt.disallowRules) = 2
  /\ robotsTxt.disallowRules[1] # robotsTxt.disallowRules[2]

\* C5: when the robots.txt fetch fails or returns a non-2xx status,
\* analyzeRobotsTxt returns exists=false with allowsIndexing=true,
\* currentPathAllowed=true and empty disallowRules, allowRules and sitemaps.
C5_AbsentIsPermissive ==
  (rpc = "done" /\ (response = Threw \/ ~response.ok)) =>
     /\ robotsTxt.exists = FALSE
     /\ robotsTxt.allowsIndexing = TRUE
     /\ robotsTxt.currentPathAllowed = TRUE
     /\ robotsTxt.disallowRules = << >>
     /\ robotsTxt.allowRules = << >>
     /\ robotsTxt.sitemaps = << >>

\* robots.txt answered with a non-2xx status and the call has returned
C5_Witness ==
  /\ rpc = "done"
  /\ response # Threw
  /\ ~response.ok


(***************************************************************************)
(* Properties of performCompetitiveAnalysis (SpecGrade).                   *)
(***************************************************************************)
BothAtLeast(n) == call.metrics.performance >= n /\ call.metrics.seo >= n
EitherAtLeast(n) == call.metrics.performance >= n \/ call.metrics.seo >= n

\* C9: for all performance and SEO scores in 0..100 the overall grade is A
\* exactly when both scores are >= 80; otherwise B exactly when both are
\* >= 70; otherwise C exactly when at least one is >= 60; otherwise D; exactly
\* one grade is returned.
C9_GradeThresholds ==
  (call.fn = "performCompetitiveAnalysis" /\ ret.done) =>
     LET g == ret.value.overallGrade
     IN  /\ g \in {"A", "B", "C", "D"}
         /\ (g = "A") = BothAtLeast(80)
         /\ (g = "B") = (~BothAtLeast(80) /\ BothAtLeast(70))
         /\ (g = "C") = (~BothAtLeast(80) /\ ~BothAtLeast(70) /\ EitherAtLeast(60))
         /\ (g = "D") = (~BothAtLeast(80) /\ ~BothAtLeast(70) /\ ~EitherAtLeast(60))

\* a graded call in which one score reaches 70 and the other stays below 60
C9_Witness ==
  /\ call.fn = "performCompetitiveAnalysis" /\ ret.done
  /\ call.metrics.performance = 70
  /\ call.metrics.seo = 59
  /\ ret.value.overallGrade = "C"

(***************************************************************************)
(* Properties of getSubpageRecommendation (SpecRecommendation).            *)
(***************************************************************************)
AdminLike   == {C_admin, C_wpAdmin, C_dashboard, C_api}
ContentLike == {C_categoryExample, C_blog, C_products, C_services}
Important   == {C_contact, C_about, C_login}

\* the decision table for the classes other than admin-like
TableEntry(path, allowed, listed) ==
  IF path \in ContentLike THEN
    IF allowed /\ listed THEN "Properly configured"
    ELSE IF allowed THEN "Should be included in sitemap"
    ELSE "Should be allowed in robots.txt"
  ELSE IF path \in Important THEN
    IF allowed /\ listed THEN "Properly configured"
    ELSE IF allowed THEN "Consider adding to sitemap"
    ELSE "Should be allowed in robots.txt"
  ELSE IF allowed THEN "Properly configured" ELSE "Review blocking rules"

\* C10 (as claimed): the recommendation is the entry of the decision table
\* for the path's class; for admin-like paths "should be blocked" when
\* allowed and "properly configured" when blocked, whether or not listed.
C10_DecisionTable ==
  (call.fn = "getSubpageRecommendation" /\ ret.done) =>
     IF call.path \in AdminLike
       THEN ret.value = IF call.robotsAllowed
                          THEN "Should be blocked in robots.txt"
                          ELSE "Properly configured"
       ELSE ret.value = TableEntry(call.path, call.robotsAllowed, call.inSitemap)

\* C10 (amended): as claimed, except that an admin-like path that is blocked
\* and listed in a sitemap gets "Should not be in sitemap"; it is "properly
\* configured" only when blocked and not listed.
C10_DecisionTableAmended ==
  (call.fn = "getSubpageRecommendation" /\ ret.done) =>
     IF call.path \in AdminLike
       THEN ret.value = IF call.robotsAllowed
                          THEN "Should be blocked in robots.txt"
                          ELSE IF call.inSitemap THEN "Should not be in sitemap"
                          ELSE "Properly configured"
       ELSE ret.value = TableEntry(call.path, call.robotsAllowed, call.inSitemap)

\* an admin-like path that is blocked by robots.txt and listed in a sitemap
C10_Witness ==
  /\ call.fn = "getSubpageRecommendation" /\ ret.done
  /\ call.path \in AdminLike
  /\ ~call.robotsAllowed
  /\ call.inSitemap

(***************************************************************************)
(* Properties of the structured-data analysis (SpecSchema).                *)
(***************************************************************************)
\* the script elements whose body parses as JSON
ParsedBlocks == {i \in 1..Len(scripts) : JSONparse(scripts[i]) # SyntaxError}

\* C8: for every sequence of JSON-LD script blocks the structured-data
\* analysis completes without raising; a block that fails to parse is skipped
\* and schemasFound equals the number of blocks that parsed as JSON (one valid
\* Organization block plus one malformed block gives schemasFound=1 and
\* organization=true).
C8_NeverRaises ==
  /\ spc # "raised"
  /\ spc = "done" =>
       /\ schemaAnalysis.schemasFound = Cardinality(ParsedBlocks)
       /\ scripts = <<B_organization, B_malformed>> =>
            (schemaAnalysis.schemasFound = 1 /\ schemaAnalysis.organization)

(***************************************************************************)
(* Properties of the network-facing components (SpecComponents).           *)
(***************************************************************************)
\* the robots.txt fetch failed: it threw or answered outside 2xx
RobotsFetchFailed == response = Threw \/ (response.threw = FALSE /\ ~response.ok)

\* the sitemap fetch failed: it threw, answered outside 2xx, its body could
\* not be read, or its body is not well-formed XML
SitemapFetchFailed ==
  \/ sitemapResponse.threw
  \/ ~sitemapResponse.ok
  \/ ~sitemapResponse.content.wellFormed

\* the archive lookup failed: the URL was invalid, the fetch threw or answered
\* outside 2xx, or the body was not JSON
ArchiveLookupFailed ==
  \/ ~targetUrl.valid
  \/ archiveResponse.threw
  \/ ~archiveResponse.ok

\* C6: a failure (network error, timeout, non-2xx, malformed body) of the
\* robots.txt fetch, of a sitemap fetch or of the archive lookup is turned
\* into the component's failure default: robots exists=false, sitemap
\* analyzed=false, domain age "Unknown".
C6_FailureDefaults ==
  /\ (rpc = "done" /\ RobotsFetchFailed) => robotsTxt.exists = FALSE
  /\ (smpc = "done" /\ SitemapFetchFailed) => sitemapData.analyzed = FALSE
  /\ (dpc = "done" /\ ArchiveLookupFailed) => domainInfo.age = "Unknown"

(***************************************************************************)
(* Properties of the audit (SpecAudit).                                    *)
(***************************************************************************)
\* the rendering step failed to produce the page's HTML
RenderingFailed == pupError # Null

IntentReturned == call.fn = "analyzeKeywordIntent" /\ ret.done
KeywordsReturned == call.fn = "analyzeKeywords" /\ ret.done

\* the largest match count of the returned scores
HighestScore(scores) ==
  CHOOSE m \in {scores[Intents[i]] : i \in 1..Len(Intents)} :
    \A i \in 1..Len(Intents) : scores[Intents[i]] <= m

\* the first intent, in declaration order, that reaches the highest count
FirstDeclaredHighest(scores) ==
  Intents[CHOOSE i \in 1..Len(Intents) :
            /\ scores[Intents[i]] = HighestScore(scores)
            /\ \A j \in 1..(i - 1) : scores[Intents[j]] # HighestScore(scores)]

\* C11: when two or more intents share the highest match count the primary
\* intent is the one declared first in the order informational, navigational,
\* transactional, commercial; when every count is 0 it is informational.
C11_FirstDeclaredWinsTies ==
  IntentReturned =>
    ret.value.primaryIntent = FirstDeclaredHighest(ret.value.intentScores)

IsLetter(c) == c \in LowerSet \cup UpperSet

\* s contains three letters in a row
HasLetterRun(s) ==
  \E i \in 1..(Len(s) - 2) : IsLetter(s[i]) /\ IsLetter(s[i + 1]) /\ IsLetter(s[i + 2])

CallText == Combined(call.text, call.title, call.description)

\* the text of the call contains none of the intent keywords
NoIntentKeyword ==
  \A i \in 1..Len(Intents) :
    \A k \in 1..Len(intentPatterns[Intents[i]]) :
      ~includes(toLowerCase(CallText), intentPatterns[Intents[i]][k])

\* C12: when the combined text holds no run of 3 or more letters (the empty
\* title, description and body included) analyzeKeywords returns totalWords = 0
\* and an empty topKeywords list; when it holds no intent keyword
\* analyzeKeywordIntent returns confidence 0; the confidence always lies in
\* 0..100.
C12_EmptyTextDefaults ==
  /\ (KeywordsReturned /\ ~HasLetterRun(CallText)) =>
       (ret.value.totalWords = 0 /\ ret.value.topKeywords = << >>)
  /\ (IntentReturned /\ NoIntentKeyword) => ret.value.confidence = 0
  /\ IntentReturned => ret.value.confidence \in 0..100

\* analyzeKeywords has returned for a text that is not empty and holds no
\* run of three letters
C12_Witness ==
  /\ KeywordsReturned
  /\ call.text # << >>
  /\ ~HasLetterRun(CallText)
  /\ ret.value.totalWords = 0

(***************************************************************************)
(* Properties of analyzeHreflang (SpecHreflang).                           *)
(***************************************************************************)
HreflangReturned == call.fn = "analyzeHreflang" /\ ret.done

\* the languages declared among the entries of the result
EntryLanguages ==
  {ret.value.hreflangs[i].lang : i \in 1..Len(ret.value.hreflangs)}

\* some entry's URL path equals the path of the audited page
SomeEntryIsSelf ==
  \E i \in 1..Len(ret.value.hreflangs) :
    /\ CanParse(ret.value.hreflangs[i].href)
    /\ PathnameOf(ret.value.hreflangs[i].href) = PathnameOf(call.baseUrl)

\* C13: isValid is true if and only if at least one hreflang entry exists
\* and either more than one distinct language is declared among the entries
\* or some entry's URL path equals the audited page's path.
C13_ValidIff ==
  HreflangReturned =>
    (ret.value.isValid <=>
       /\ Len(ret.value.hreflangs) >= 1
       /\ (Cardinality(EntryLanguages) > 1 \/ SomeEntryIsSelf))

(***************************************************************************)
(* Properties of analyzeSitemapContent (SpecComponents).                   *)
(***************************************************************************)
\* analyzeSitemapContent has returned the analysis of a urlset
UrlsetAnalyzed ==
  /\ smpc = "done"
  /\ sitemapData.analyzed
  /\ sitemapData.type = "urlset"

\* the category of every <url> entry of the document that was read, whether
\* or not the entry is among the returned ones
EntryTypes ==
  [i \in 1..Len(sitemapResponse.content.url) |->
     [type |-> UrlType(sitemapResponse.content.url[i], currentUrl)]]

CategorySum ==
  sitemapData.subpageCoverage.categoryPages + sitemapData.subpageCoverage.productPages
    + sitemapData.subpageCoverage.blogPages + sitemapData.subpageCoverage.staticPages

NoOtherEntry == \A i \in 1..Len(EntryTypes) : EntryTypes[i].type # "other"

\* C15 as stated: for a urlset in which every URL receives a category other
\* than `other`, categoryPages + productPages + blogPages + staticPages equals
\* totalPages; for every urlset the sum never exceeds totalPages.
C15_CountsSumToTotal ==
  UrlsetAnalyzed =>
    /\ NoOtherEntry => CategorySum = sitemapData.subpageCoverage.totalPages
    /\ CategorySum <= sitemapData.subpageCoverage.totalPages

\* C15 amended: an entry of category `current` is counted by none of the four
\* counters, so for a urlset without an `other` entry the four counters plus
\* the number of `current` entries equal totalPages; the sum of the four never
\* exceeds totalPages.
C15_CountsPlusCurrent ==
  UrlsetAnalyzed =>
    /\ NoOtherEntry =>
         CategorySum + CountType(EntryTypes, "current")
           = sitemapData.subpageCoverage.totalPages
    /\ CategorySum <= sitemapData.subpageCoverage.totalPages

\* a urlset without an `other` entry that lists the audited page next to a
\* page counted by one of the four counters
C15_Witness ==
  /\ UrlsetAnalyzed
  /\ NoOtherEntry
  /\ CountType(EntryTypes, "current") = 1
  /\ CategorySum = 1
  /\ sitemapData.subpageCoverage.totalPages = 2

(***************************************************************************)
(* Properties of checkSitemap (SpecDiscovery).                             *)
(***************************************************************************)
\* checkSitemap has returned the record built from the sitemaps it found
DiscoveryReturned == cpc = "done" /\ discovery.error = Null

\* the analyzed sitemap lists the audited URL: some <loc> is the URL, with or
\* without one trailing slash
ListsPage(analysis, page) ==
  \E i \in 1..Len(analysis.urls) :
     analysis.urls[i].loc = page \/ analysis.urls[i].loc = page \o Slash

\* the sitemaps of the returned record that were analyzed
AnalyzedSitemaps ==
  {i \in 1..Len(discovery.sitemaps) : discovery.sitemaps[i].analyzed = Some(TRUE)}

\* C14: the analysis of a urlset sitemap reports hasCurrentPage
\* (currentPageInSitemap) = true if and only if some <loc> equals the audited
\* URL, with or without one trailing slash; the aggregated hasCurrentPage of
\* the discovery is true if and only if at least one analyzed sitemap lists
\* the audited URL.
C14_CurrentPageListed ==
  DiscoveryReturned =>
    /\ \A i \in AnalyzedSitemaps :
         discovery.sitemaps[i].analysis.type = "urlset" =>
           /\ discovery.sitemaps[i].analysis.subpageCoverage.hasCurrentPage
                <=> ListsPage(discovery.sitemaps[i].analysis, siteUrl)
           /\ discovery.sitemaps[i].analysis.subpageCoverage.currentPageInSitemap
                <=> ListsPage(discovery.sitemaps[i].analysis, siteUrl)
    /\ discovery.subpageCoverage.hasCurrentPage
         <=> \E i \in AnalyzedSitemaps :
               ListsPage(discovery.sitemaps[i].analysis, siteUrl)

\* the entries of foundSitemaps that the common-path step recorded
CommonPathEntries ==
  {i \in 1..Len(foundSitemaps) : foundSitemaps[i].source = "Common path"}

\* a step of the loop over commonSitemapPaths: one more path has been probed
CommonPathProbed == pathIdx' # pathIdx

\* the probe of the step answered 2xx with a content type that includes
\* 'xml' or 'text'
ProbeIsSitemap(p) ==
  /\ ~p.threw
  /\ p.ok
  /\ IncludesXml(p.contentType) \/ IncludesText(p.contentType)

\* the step recorded the probed path as the only sitemap and ended the loop
RecordedAndStopped ==
  /\ cpc' = "done"
  /\ foundSitemaps' =
       <<[url |-> CommonSitemapUrl(commonSitemapPaths[pathIdx + 1]),
          source |-> "Common path", accessible |-> Some(TRUE),
          analyzed |-> foundSitemaps'[1].analyzed,
          analysis |-> foundSitemaps'[1].analysis]>>

\* the paths are probed one after the other from the head of the list, and
\* only while nothing is recorded
ProbedInOrder ==
  /\ commonSitemapPaths[1] = <<"/","s","i","t","e","m","a","p",".","x","m","l">>
  /\ pathIdx \in 0..Len(commonSitemapPaths)
  /\ Cardinality(CommonPathEntries) <= 1
  /\ cpc = "common" => foundSitemaps = << >>

\* C23 as stated: in checkSitemap the conventional well-known paths are
\* probed only when the robots.txt step and the HTML <link rel="sitemap">
\* step recorded no sitemap; they are probed in the fixed list order starting
\* with /sitemap.xml, probing stops at the first path that responds
\* successfully (a 2xx answer), and so at most one sitemap with source
\* 'Common path' is ever recorded.
C23_StopsAtFirstSuccess ==
  /\ []ProbedInOrder
  /\ [][CommonPathProbed =>
          /\ foundSitemaps = << >>
          /\ pathIdx' = pathIdx + 1
          /\ IF ~probe'.threw /\ probe'.ok
               THEN RecordedAndStopped
               ELSE foundSitemaps' = << >>]_vars

\* C23, amended: the well-known paths are probed only when the earlier steps
\* recorded no sitemap, in the fixed list order starting with /sitemap.xml;
\* probing stops at the first path that answers 2xx with a content type
\* that includes 'xml' or 'text' (any other answer, 2xx included, moves on
\* to the next path), and so at most one sitemap with source 'Common path'
\* is ever recorded.
C23_StopsAtFirstSitemap ==
  /\ []ProbedInOrder
  /\ [][CommonPathProbed =>
          /\ foundSitemaps = << >>
          /\ pathIdx' = pathIdx + 1
          /\ IF ProbeIsSitemap(probe')
               THEN RecordedAndStopped
               ELSE /\ foundSitemaps' = << >>
                    /\ cpc' = IF pathIdx' < Len(commonSitemapPaths) THEN "common" ELSE "done"]_vars

\* the first path answered 2xx with another content type, the second one was
\* recorded
C23_Witness ==
  /\ cpc = "done"
  /\ pathIdx = 2
  /\ Cardinality(CommonPathEntries) = 1
  /\ foundSitemaps[1].url = CommonSitemapUrl(commonSitemapPaths[2])

(***************************************************************************)
(* Properties of the returned list of analyzeSitemapContent                *)
(* (SpecComponents).                                                       *)
(***************************************************************************)
SitemapAnalysisReturned == smpc = "done" /\ sitemapData.analyzed

\* the <loc> of every entry of the document that was read
AllLocs ==
  IF sitemapResponse.content.urlset THEN sitemapResponse.content.url
  ELSE IF sitemapResponse.content.sitemapindex THEN sitemapResponse.content.sitemap
  ELSE << >>

\* number of entries of the whole document with the given category
EntriesOfType(type) ==
  Cardinality({i \in 1..Len(AllLocs) : UrlType(AllLocs[i], currentUrl) = type})

\* C24: analyzeSitemapContent returns at most the first 50 entries in urls,
\* in document order, while totalUrls, subpageCoverage.totalPages, the
\* per-category counters and hasCurrentPage are computed over all entries,
\* including those after the 50th.
C24_FirstFiftyOfAll ==
  SitemapAnalysisReturned =>
    /\ Len(sitemapData.urls) = (IF Len(AllLocs) < 50 THEN Len(AllLocs) ELSE 50)
    /\ \A i \in 1..Len(sitemapData.urls) : sitemapData.urls[i].loc = AllLocs[i]
    /\ sitemapData.totalUrls = Len(AllLocs)
    /\ sitemapData.type = "urlset" =>
         /\ sitemapData.subpageCoverage.totalPages = Len(AllLocs)
         /\ sitemapData.subpageCoverage.categoryPages = EntriesOfType("category")
         /\ sitemapData.subpageCoverage.productPages = EntriesOfType("product")
         /\ sitemapData.subpageCoverage.blogPages = EntriesOfType("blog")
         /\ sitemapData.subpageCoverage.staticPages = EntriesOfType("static")
         /\ sitemapData.subpageCoverage.hasCurrentPage <=> EntriesOfType("current") > 0

\* a urlset of 52 entries whose last entry is the audited page: 50 entries
\* are returned, none of them the audited page, and hasCurrentPage is true
C24_Witness ==
  /\ SitemapAnalysisReturned
  /\ sitemapData.type = "urlset"
  /\ sitemapData.totalUrls = 52
  /\ Len(sitemapData.urls) = 50
  /\ \A i \in 1..Len(sitemapData.urls) : sitemapData.urls[i].type # "current"
  /\ sitemapData.subpageCoverage.hasCurrentPage

(***************************************************************************)
(* Properties of calculateOpenGraphCompleteness (SpecOpenGraph).           *)
(***************************************************************************)
CompletenessReturned == call.fn = "calculateOpenGraphCompleteness" /\ ret.done

\* the twelve weighted conditions that hold for the call's data
WeightedConditions ==
  {p \in {"og:title", "og:description", "og:image", "og:url", "og:type",
          "og:site_name", "twitter:card", "og:locale"} : p \in call.ogData.tags}
    \cup (IF "fb:app_id" \in call.ogData.tags \/ "fb:page_id" \in call.ogData.tags
            THEN {"facebook"} ELSE {})
    \cup (IF "article:published_time" \in call.ogData.tags
              \/ "video:duration" \in call.ogData.tags
            THEN {"published or duration"} ELSE {})
    \cup (IF Len(call.ogData.images) > 1 THEN {"several images"} ELSE {})
    \cup (IF \E i \in 1..Len(call.ogData.images) :
               /\ call.ogData.images[i].width.kind = "number"
               /\ call.ogData.images[i].width.v # 0
               /\ call.ogData.images[i].height.kind = "number"
               /\ call.ogData.images[i].height.v # 0
            THEN {"image dimensions"} ELSE {})

\* C16: calculateOpenGraphCompleteness returns 0 when no weighted tag is
\* present, never returns a value outside 0..100, and returns exactly 100 only
\* when all twelve weighted conditions hold.
C16_CompletenessBounds ==
  CompletenessReturned =>
    /\ ret.value \in 0..100
    /\ WeightedConditions = {} => ret.value = 0
    /\ ret.value = 100 => Cardinality(WeightedConditions) = 12

\* the score 100 has been returned for data that meets the twelve conditions
C16_Witness ==
  /\ CompletenessReturned
  /\ ret.value = 100
  /\ Cardinality(WeightedConditions) = 12

(***************************************************************************)
(* Properties of calculateReadability (SpecReadability).                   *)
(***************************************************************************)
ReadabilityReturned == call.fn = "calculateReadability" /\ ret.done

\* the text holds no word: every character is white space
NoWord == \A i \in 1..Len(call.text) : call.text[i] \in Whitespace

\* the text holds no sentence: every character is white space or one of . ! ?
NoSentence ==
  \A i \in 1..Len(call.text) : call.text[i] \in Whitespace \cup SentenceEnd

\* C17: calculateReadability returns an integer in [0, 100] for every text,
\* and exactly 50 whenever the text has zero words or zero sentences.
C17_ReadabilityRange ==
  ReadabilityReturned =>
    /\ ret.value \in 0..100
    /\ (NoWord \/ NoSentence) => ret.value = 50

\* a text with words and sentences whose Flesch score lies below 0 has been
\* scored
C17_Witness ==
  /\ ReadabilityReturned
  /\ ~NoWord
  /\ ~NoSentence
  /\ ret.value = 0

(***************************************************************************)
(* Properties of evaluateContentUniqueness (SpecUniqueness).               *)
(***************************************************************************)
UniquenessReturned == call.fn = "evaluateContentUniqueness" /\ ret.done

WordCountTerm(words) ==
  IF words >= 300 /\ words <= 2000 THEN 20
  ELSE IF words > 2000 THEN 15
  ELSE 0 - 20

\* 50 adjusted by the five terms, for the words and sentences of the text
AdjustedScore ==
  LET words == WordsOf(call.text)
      sentences == SentencesOf(call.text)
  IN  50 + WordCountTerm(words)
         + (IF Len(call.title) > 0 /\ Len(call.description) > 0 THEN 15 ELSE 0)
         + (IF Len(call.title) \in 30..60 THEN 10 ELSE 0)
         + (IF Len(call.description) \in 120..160 THEN 10 ELSE 0)
         + (IF sentences > 0 /\ 15 * sentences <= words /\ words <= 25 * sentences
              THEN 5 ELSE 0)

\* C18: evaluateContentUniqueness returns a score in [0, 100] that equals 50
\* adjusted by the word-count term (+20 for 300..2000 words, +15 above 2000,
\* -20 below 300), +15 when title and description are both non-empty, +10 for
\* a title length in 30..60, +10 for a description length in 120..160 and +5
\* for 15..25 average words per sentence, then clamped.
C18_UniquenessScore ==
  UniquenessReturned =>
    /\ ret.value.score \in 0..100
    /\ ret.value.score = Min(100, Max(0, AdjustedScore))

\* every term applies and the sum, 110, is clamped to 100
C18_Witness ==
  /\ UniquenessReturned
  /\ AdjustedScore = 110
  /\ ret.value.score = 100

(***************************************************************************)
(* Properties of the URL-valued fields (SpecUrlFields).                    *)
(***************************************************************************)
\* a field of the report has been filled from a value of the page, of
\* robots.txt or of a sitemap
FieldStored == call.fn \in UrlFields /\ ret.done /\ ret.value # Null

\* the string is an absolute URL: a scheme followed by a host
IsAbsoluteUrl(s) ==
  \/ startsWith(s, SchemeHttp) /\ Len(s) > 7 /\ s[8] # "/"
  \/ startsWith(s, SchemeHttps) /\ Len(s) > 8 /\ s[9] # "/"

\* C19: every URL-valued field of a report (sitemap URLs taken from
\* robots.txt, sitemap entry locations, canonical, Open Graph url and image
\* URLs, hreflang hrefs, link URLs, image sources) holds an absolute URL, also
\* when the markup or robots.txt supplied a relative or protocol-relative URL.
C19_UrlFieldsAbsolute == FieldStored => IsAbsoluteUrl(ret.value[1])

(***************************************************************************)
(* Properties of the browser's working directory (SpecAudit).              *)
(***************************************************************************)
\* the audit is over: the handler has answered
AuditOver == apc = "responded"

\* a browser was launched during the audit
BrowserLaunched == browser # "none"

\* C20: the browser working directory (.chrome-temp) is deleted at the end of
\* every audit, whether scrapeSite returns a report or fails with an
\* exception at any step after the browser was launched.
C20_WorkingDirDeleted == (AuditOver /\ BrowserLaunched) => ~chromeTemp

(***************************************************************************)
(* Properties of the network operations (LiveNetwork).                     *)
(***************************************************************************)
\* C21: every network-facing operation eventually ends with either a
\* response or a timeout failure, provided its abort timer eventually fires;
\* also when the remote server sends the response headers and then stalls
\* before the body is complete.
C21_EventuallyEnds == <>(netPc = "done")
(***************************************************************************)
(* Properties of concurrent audits (SpecConcurrent).                       *)
(***************************************************************************)
\* C22: when two audit requests run concurrently, no audit deletes the
\* shared browser working directory while the other audit's browser is
\* still running on it: whenever a browser runs on LOCAL_CHROME_PATH, the
\* directory exists.
C22_NoDeletionUnderRunningBrowser ==
  \A i \in Requests : RunsOnChromePath(audits[i]) => chromePath

(***************************************************************************)
(* Properties of checkSubpagePaths (SpecSubpages).                         *)
(***************************************************************************)
\* checkSubpagePaths has returned the results of its fifteen probes
SubpagesReturned == subpagePc = "done" /\ url.valid

checkedPaths == subpageResult.checkedPaths

\* the sitemaps of the site that checkSitemap analyzed successfully
AnalyzedServed == {k \in 1..Len(served) : served[k].outcome = "analyzed"}

\* the document holds, at any position, a URL that equals fullUrl or has it
\* as a prefix
ListsUrl(doc, fullUrl) ==
  \E j \in 1..Len(doc.url \o doc.sitemap) :
    \/ (doc.url \o doc.sitemap)[j] = fullUrl
    \/ startsWith((doc.url \o doc.sitemap)[j], fullUrl)

\* C25: for every catalogue path, checkSubpagePaths reports inSitemap = true
\* if and only if some successfully analyzed sitemap contains a URL that
\* equals the path's full URL or has it as a prefix, whatever the position of
\* that URL within its sitemap.
C25_InSitemapIff ==
  SubpagesReturned =>
    \A i \in 1..Len(checkedPaths) :
      checkedPaths[i].inSitemap
        <=> \E k \in AnalyzedServed : ListsUrl(served[k].doc, checkedPaths[i].url)

\* number of probes that satisfy the test
Probes(Test(_)) == Cardinality({i \in 1..Len(checkedPaths) : Test(checkedPaths[i])})
HasProperRecommendation(p) == p.recommendedAction = "Properly configured"

\* C26: summary.properlyConfigured equals the number of probed paths whose
\* recommendation is "Properly configured", summary.totalChecked is 15, and
\* summary.robotsAllowed and summary.inSitemap equal the numbers of probes
\* with robotsAllowed = true and inSitemap = true.
C26_SummaryCounts ==
  subpagePc = "done" =>
    /\ subpageResult.summary.properlyConfigured = Probes(HasProperRecommendation)
    /\ subpageResult.summary.totalChecked = 15
    /\ subpageResult.summary.robotsAllowed = Probes(IsRobotsAllowed)
    /\ subpageResult.summary.inSitemap = Probes(IsInSitemap)

\* C30: whenever allowsIndexing is false (the wildcard block contains
\* `Disallow: /` or an empty Disallow and no `Allow: /`), currentPathAllowed
\* is false and every catalogue path probed by checkSubpagePaths is reported
\* with robotsAllowed = false.
C30_BlockedSiteBlocksPaths ==
  (rpc = "done" /\ ~robotsTxt.allowsIndexing) =>
    /\ ~robotsTxt.currentPathAllowed
    /\ subpagePc = "done" =>
         \A i \in 1..Len(checkedPaths) : ~checkedPaths[i].robotsAllowed

(***************************************************************************)
(* Properties of extractDetailedLinks (SpecLinks).                         *)
(***************************************************************************)
LinksReturned == call.fn = "extractDetailedLinks" /\ ret.done

\* the anchors of the call whose href is not a skipped target
Anchors == {i \in 1..Len(call.hrefs) : ~IsSkippedHref(call.hrefs[i])}

\* the href is an absolute URL
IsAbsoluteHref(href) == CanParse(href)

\* the href starts with "/", is relative, or is an absolute URL on the
\* audited hostname
ShouldBeInternal(href) ==
  \/ startsWith(href, Slash)
  \/ ~IsAbsoluteHref(href)
  \/ HostOf(href) = HostOf(call.targetUrl)

\* the href is an absolute URL on another hostname
ShouldBeExternal(href) ==
  IsAbsoluteHref(href) /\ HostOf(href) # HostOf(call.targetUrl)

\* C27: extractDetailedLinks places every anchor whose href is not a
\* skipped target (#, javascript:, mailto:) in exactly one of the internal
\* and external lists: internal when the href starts with "/", is relative,
\* or is an absolute URL whose hostname is the audited hostname; external
\* when it is an absolute URL whose hostname differs.
C27_EveryAnchorPlaced ==
  LinksReturned =>
    /\ Len(ret.value.internal) + Len(ret.value.external) = Cardinality(Anchors)
    /\ Len(ret.value.internal)
         = Cardinality({i \in Anchors : ShouldBeInternal(call.hrefs[i])})
    /\ Len(ret.value.external)
         = Cardinality({i \in Anchors : ShouldBeExternal(call.hrefs[i])})

(***************************************************************************)
(* Properties of the authority tier of analyzeDomain (SpecComponents).     *)
(***************************************************************************)
\* analyzeDomain has returned the record of its outer try block
DomainAnalyzed == dpc = "done" /\ targetUrl.valid

\* the age in whole years is a number in the given range
WholeYearsIn(range) ==
  domainInfo.ageInYears.kind = "number" /\ domainInfo.ageInYears.v \in range

\* C28: the authority tier of analyzeDomain is Established when the age in
\* whole years is at least 3, Moderate when it is 1 or 2, New when the age
\* is known and below one year, and Unknown exactly when the age estimate is
\* "Unknown"; a domain whose age is "N months" or "Less than 1 month"
\* therefore has tier New.
C28_AuthorityTier ==
  DomainAnalyzed =>
    /\ WholeYearsIn(3..100) => domainInfo.estimatedAuthority = "Established"
    /\ WholeYearsIn(1..2) => domainInfo.estimatedAuthority = "Moderate"
    /\ (domainInfo.age # "Unknown" /\ WholeYearsIn(0..0))
         => domainInfo.estimatedAuthority = "New"
    /\ domainInfo.estimatedAuthority = "Unknown" <=> domainInfo.age = "Unknown"

(***************************************************************************)
(* Properties of the og:image list of analyzeOpenGraph                     *)
(* (SpecOpenGraphImages).                                                  *)
(***************************************************************************)
OpenGraphReturned == call.fn = "analyzeOpenGraph" /\ ret.done

\* the og:image URLs the page declares, in absolute form
DeclaredImageUrls ==
  {Resolve(call.metas[k].content, call.baseUrl)[1] :
     k \in {j \in 1..Len(call.metas) : call.metas[j].property = "og:image"}}

\* C29: the OG image list returned by analyzeOpenGraph contains exactly one
\* record per distinct og:image URL declared on the page: sub-property tags
\* (og:image:width, og:image:height, og:image:alt, og:image:type) only fill
\* attributes and never create a record, and no two records have the same
\* URL after resolution to absolute form.
C29_OneRecordPerImage ==
  OpenGraphReturned =>
    /\ {ret.value.images[k].url : k \in 1..Len(ret.value.images)} = DeclaredImageUrls
    /\ Len(ret.value.images) = Cardinality(DeclaredImageUrls)

====
